---------------------------- MODULE Spec2Model ----------------------------
(***************************************************************************)
(* A model of the LMGL scene graph (lmgl::scene::Node, Scene, Camera,      *)
(* Frustum) and of the renderer's per-frame pipeline                       *)
(* (lmgl::renderer::Renderer).                                             *)
(*                                                                         *)
(* Numbers.  The program computes in IEEE floats; the model computes in    *)
(* the integers, and every input set is chosen so that the real-number     *)
(* result of each operation is an integer (translations and scales with    *)
(* integer components, rotations by multiples of 180 degrees about a       *)
(* coordinate axis, a 90 degree field of view).  Lengths, which need a     *)
(* square root, are kept squared; a comparison of two non-negative lengths *)
(* is the comparison of their squares.                                     *)
(*                                                                         *)
(* Matrices.  A mat4 is a tuple of four columns, each a tuple of four      *)
(* rows, as in glm (column-major): M[c][r].                                *)
(***************************************************************************)
EXTENDS Integers, Sequences, FiniteSets, TLC

\* ------------------------------------------------------------------ bounds
\* Number of Node objects alive (all held by shared_ptr).
NumNodes == 4
\* Largest coordinate handed to set_position.
MaxCoord == 1
\* Number of operations explored after Init in the step-bounded specifications.
MaxSteps == 2

Null == 0
Nodes == 1..NumNodes
NodeOrNull == Nodes \cup {Null}

\* ------------------------------------------------------------------ glm
Vec3(x, y, z) == <<x, y, z>>
Zero3 == <<0, 0, 0>>
One3 == <<1, 1, 1>>

Dot3(a, b) == a[1] * b[1] + a[2] * b[2] + a[3] * b[3]
Sub3(a, b) == <<a[1] - b[1], a[2] - b[2], a[3] - b[3]>>
LengthSq3(a) == Dot3(a, a)

Identity4 == << <<1, 0, 0, 0>>, <<0, 1, 0, 0>>, <<0, 0, 1, 0>>, <<0, 0, 0, 1>> >>

\* glm: (A * B)[c][r] = sum over k of A[k][r] * B[c][k]
MatMul(A, B) ==
  [c \in 1..4 |-> [r \in 1..4 |->
      A[1][r] * B[c][1] + A[2][r] * B[c][2] + A[3][r] * B[c][3] + A[4][r] * B[c][4]]]

\* glm: (M * v)[r] = sum over k of M[k][r] * v[k]
MatVec(M, v) ==
  [r \in 1..4 |-> M[1][r] * v[1] + M[2][r] * v[2] + M[3][r] * v[3] + M[4][r] * v[4]]

\* vec3(M[3]): the translation column.
Origin4(M) == <<M[4][1], M[4][2], M[4][3]>>

\* glm::translate(mat4(1), v)
Translate(v) == << <<1, 0, 0, 0>>, <<0, 1, 0, 0>>, <<0, 0, 1, 0>>, <<v[1], v[2], v[3], 1>> >>

\* glm::scale(mat4(1), s)
ScaleMat(s) == << <<s[1], 0, 0, 0>>, <<0, s[2], 0, 0>>, <<0, 0, s[3], 0>>, <<0, 0, 0, 1>> >>

\* glm::quat, fields w x y z.
Quat(w, x, y, z) == [w |-> w, x |-> x, y |-> y, z |-> z]
QuatIdentity == Quat(1, 0, 0, 0)

\* glm: operator*(quat p, quat q), the Hamilton product.
QuatMul(p, q) ==
  Quat(p.w * q.w - p.x * q.x - p.y * q.y - p.z * q.z,
       p.w * q.x + p.x * q.w + p.y * q.z - p.z * q.y,
       p.w * q.y + p.y * q.w + p.z * q.x - p.x * q.z,
       p.w * q.z + p.z * q.w + p.x * q.y - p.y * q.x)

\* glm::mat4_cast(quat)
Mat4Cast(q) ==
  << <<1 - 2 * (q.y * q.y + q.z * q.z), 2 * (q.x * q.y + q.w * q.z), 2 * (q.x * q.z - q.w * q.y), 0>>,
     <<2 * (q.x * q.y - q.w * q.z), 1 - 2 * (q.x * q.x + q.z * q.z), 2 * (q.y * q.z + q.w * q.x), 0>>,
     <<2 * (q.x * q.z + q.w * q.y), 2 * (q.y * q.z - q.w * q.x), 1 - 2 * (q.x * q.x + q.y * q.y), 0>>,
     <<0, 0, 0, 1>> >>

\* Angles are given in degrees and are multiples of 180; the half angle is
\* then a multiple of 90 degrees and its cosine and sine are 0, 1 or -1.
Angles == {0, 180, 360}
CosHalf(deg) == CASE deg = 0 -> 1 [] deg = 180 -> 0 [] deg = 360 -> -1
SinHalf(deg) == CASE deg = 0 -> 0 [] deg = 180 -> 1 [] deg = 360 -> 0

\* glm::quat(vec3 eulerAngles), after glm::radians
QuatFromEuler(e) ==
  LET cx == CosHalf(e[1]) cy == CosHalf(e[2]) cz == CosHalf(e[3])
      sx == SinHalf(e[1]) sy == SinHalf(e[2]) sz == SinHalf(e[3])
  IN Quat(cx * cy * cz + sx * sy * sz,
          sx * cy * cz - cx * sy * sz,
          cx * sy * cz + sx * cy * sz,
          cx * cy * sz - sx * sy * cz)

Sign(x) == IF x > 0 THEN 1 ELSE IF x < 0 THEN -1 ELSE 0

\* glm::normalize of a vector that lies along one coordinate axis.
NormalizeAxis(v) == <<Sign(v[1]), Sign(v[2]), Sign(v[3])>>

\* glm::angleAxis(glm::radians(angle), axis)
AngleAxis(deg, axis) ==
  Quat(CosHalf(deg), axis[1] * SinHalf(deg), axis[2] * SinHalf(deg), axis[3] * SinHalf(deg))

Cross3(a, b) ==
  <<a[2] * b[3] - a[3] * b[2], a[3] * b[1] - a[1] * b[3], a[1] * b[2] - a[2] * b[1]>>

\* glm::lookAt (right-handed), for a viewing direction and a cross product
\* that lie along coordinate axes.
LookAt(eye, center, up) ==
  LET f == NormalizeAxis(Sub3(center, eye))
      sd == NormalizeAxis(Cross3(f, up))
      u == Cross3(sd, f)
  IN << <<sd[1], u[1], -f[1], 0>>,
        <<sd[2], u[2], -f[2], 0>>,
        <<sd[3], u[3], -f[3], 0>>,
        <<-Dot3(sd, eye), -Dot3(u, eye), Dot3(f, eye), 1>> >>

\* tan(fov / 2) for the field of view the model uses.
TanHalf(fov) == CASE fov = 90 -> 1

\* glm::perspective (right-handed, depth -1..1); the parameters are chosen so
\* that every quotient is exact.
Perspective(fov, aspect, near, far) ==
  << <<1 \div (aspect * TanHalf(fov)), 0, 0, 0>>,
     <<0, 1 \div TanHalf(fov), 0, 0>>,
     <<0, 0, -((far + near) \div (far - near)), -1>>,
     <<0, 0, -((2 * far * near) \div (far - near)), 0>> >>

\* glm::ortho (right-handed, depth -1..1); the parameters are chosen so that
\* every quotient is exact.
Ortho(left, right, bottom, top, near, far) ==
  << <<2 \div (right - left), 0, 0, 0>>,
     <<0, 2 \div (top - bottom), 0, 0>>,
     <<0, 0, -(2 \div (far - near)), 0>>,
     <<-((right + left) \div (right - left)), -((top + bottom) \div (top - bottom)),
       -((far + near) \div (far - near)), 1>> >>

\* ------------------------------------------------------------------ state
VARIABLES
  \* lmgl::scene::Node, one entry per node
  position,        \* m_position
  rotation,        \* m_rotation
  scale,           \* m_scale
  local,           \* m_local_transform
  world,           \* m_world_transform
  parent,          \* m_parent (Null: expired or empty weak_ptr)
  children,        \* m_children
  mesh,            \* m_mesh (Null or a mesh of MeshTable)
  light,           \* the light attached to the node (Null or a light of LightTable)
  \* lmgl::scene::Light, one entry per light
  lightPos,        \* m_position
  \* lmgl::scene::Scene, Camera; lmgl::renderer::Renderer; the GL context
  scene,           \* m_lights, m_skybox (set or not), m_shadows_enabled
  cam,             \* m_position, m_target, m_up, m_view, m_projection, m_mode, m_view_dirty
  renderer,        \* the Renderer's members
  gl,              \* GL state the renderer switches
  gl_trace,        \* the GL work issued by the last call of Renderer::render
  \* lmgl::core::Engine and the window system in front of it
  engine,          \* m_key_states, m_key_just_pressed, m_key_just_released, queued events
  \* the process and the observer
  crashed,         \* the process has run into unbounded recursion
  steps,           \* operations performed so far
  lastOp           \* the operation performed last, with its arguments

nodeVars == <<position, rotation, scale, local, world, parent, children>>
renderVars == <<mesh, light, lightPos, scene, cam, renderer, gl, gl_trace, engine>>
vars == <<position, rotation, scale, local, world, parent, children, mesh, light, lightPos,
          scene, cam, renderer, gl, gl_trace, engine, crashed, steps, lastOp>>

\* ------------------------------------------------------------------ Node
\* Node::update_local_transform: translation * rotation * scale
update_local_transform(pos, rot, scl) ==
  MatMul(MatMul(Translate(pos), Mat4Cast(rot)), ScaleMat(scl))

\* std::find: index of the first element equal to x, 0 when absent.
Find(s, x) ==
  IF \E i \in 1..Len(s) : s[i] = x
  THEN CHOOSE i \in 1..Len(s) : s[i] = x /\ \A j \in 1..(i - 1) : s[j] # x
  ELSE 0

\* std::vector::erase of the element at index i.
Erase(s, i) == SubSeq(s, 1, i - 1) \o SubSeq(s, i + 1, Len(s))

Contains(s, x) == \E i \in 1..Len(s) : s[i] = x
Count(s, x) == Cardinality({i \in 1..Len(s) : s[i] = x})

\* The hierarchy fields of all nodes, as one value.
Links(par, ch) == [parent |-> par, children |-> ch]

\* remove_child that erases the child but keeps its parent reference.
remove_child_keeps_parent(H, p, child) ==
  IF child = Null THEN H
  ELSE LET it == Find(H.children[p], child)
       IN IF it # 0
          THEN Links(H.parent, [H.children EXCEPT ![p] = Erase(@, it)])
          ELSE H

\* remove_child that clears the child's parent reference before looking it up.
remove_child_resets_unfound(H, p, child) ==
  IF child = Null THEN H
  ELSE LET it == Find(H.children[p], child)
           par == [H.parent EXCEPT ![child] = Null]
       IN IF it # 0
          THEN Links(par, [H.children EXCEPT ![p] = Erase(@, it)])
          ELSE Links(par, H.children)

\* Node::remove_child on node p.
remove_child(H, p, child) ==
  IF child = Null THEN H
  ELSE LET it == Find(H.children[p], child)
       IN IF it # 0
          THEN Links([H.parent EXCEPT ![child] = Null],
                     [H.children EXCEPT ![p] = Erase(@, it)])
          ELSE H

\* Node::detach_from_parent on node n.
detach_from_parent(H, n) ==
  IF H.parent[n] # Null THEN remove_child(H, H.parent[n], n) ELSE H

\* add_child without the call of detach_from_parent.
add_child_links_no_detach(H, p, child) ==
  Links([H.parent EXCEPT ![child] = p],
        [H.children EXCEPT ![p] = Append(@, child)])

\* Node::add_child on node p, up to the call of update_transform.
add_child_links(H, p, child) ==
  LET H1 == detach_from_parent(H, child)
  IN Links([H1.parent EXCEPT ![child] = p],
           [H1.children EXCEPT ![p] = Append(@, child)])

\* The nodes reached from n by following child lists (n included).
RECURSIVE ReachSet(_, _)
ReachSet(ch, S) ==
  LET T == S \cup {ch[n][i] : <<n, i>> \in {<<m, j>> \in S \X (1..NumNodes) : j <= Len(ch[m])}}
  IN IF T = S THEN S ELSE ReachSet(ch, T)

Descendants(ch, n) == ReachSet(ch, {ch[n][i] : i \in 1..Len(ch[n])})

\* update_transform started at n returns iff no node below n is revisited.
Terminates(ch, n) == \A m \in {n} \cup Descendants(ch, n) : m \notin Descendants(ch, m)

\* update_transform that does not descend into the children.
RECURSIVE update_transform_calls_no_children(_, _, _, _)
update_transform_calls_no_children(W, ch, loc, work) ==
  IF work = <<>> THEN W
  ELSE LET n == work[1][1]
           w == MatMul(work[1][2], loc[n])
       IN update_transform_calls_no_children([W EXCEPT ![n] = w], ch, loc, Tail(work))

\* update_transform that hands its own argument, not the world transform it
\* has just computed, down to the children.
RECURSIVE update_transform_calls_same_parent(_, _, _, _)
update_transform_calls_same_parent(W, ch, loc, work) ==
  IF work = <<>> THEN W
  ELSE LET n == work[1][1]
           w == MatMul(work[1][2], loc[n])
           calls == [i \in 1..Len(ch[n]) |-> <<ch[n][i], work[1][2]>>]
       IN update_transform_calls_same_parent([W EXCEPT ![n] = w], ch, loc, calls \o Tail(work))

\* update_transform that multiplies local * parent instead of parent * local.
RECURSIVE update_transform_calls_swapped(_, _, _, _)
update_transform_calls_swapped(W, ch, loc, work) ==
  IF work = <<>> THEN W
  ELSE LET n == work[1][1]
           w == MatMul(loc[n], work[1][2])
           calls == [i \in 1..Len(ch[n]) |-> <<ch[n][i], w>>]
       IN update_transform_calls_swapped([W EXCEPT ![n] = w], ch, loc, calls \o Tail(work))

\* Node::update_transform.  work is the stack of pending calls <<node, parent_transform>>;
\* the call on a node writes its world transform and then calls each child in order.
RECURSIVE update_transform_calls(_, _, _, _)
update_transform_calls(W, ch, loc, work) ==
  IF work = <<>> THEN W
  ELSE LET n == work[1][1]
           w == MatMul(work[1][2], loc[n])
           calls == [i \in 1..Len(ch[n]) |-> <<ch[n][i], w>>]
       IN update_transform_calls([W EXCEPT ![n] = w], ch, loc, calls \o Tail(work))

update_transform(W, ch, loc, n, parent_transform) ==
  update_transform_calls(W, ch, loc, << <<n, parent_transform>> >>)

\* ------------------------------------------------------------------ actions
\* old_parent is the parent the argument (for detach: the receiver) had before
\* the call; xf is the matrix argument of update_transform; frames is the
\* number of calls of Renderer::render with a scene and a camera so far, this
\* one included.
NoOp ==
  [op |-> "none", self |-> Null, arg |-> Null, old_parent |-> Null, xf |-> Identity4,
   frames |-> 0]

Op(name, self, arg, old, xf) ==
  [op |-> name, self |-> self, arg |-> arg, old_parent |-> old, xf |-> xf,
   frames |-> lastOp.frames + (IF name = "render" /\ self # Null /\ arg # Null THEN 1 ELSE 0)]

\* Node::add_child
AddChild(p, child) ==
  /\ ~crashed
  /\ lastOp' = Op("add_child", p, child, IF child = Null THEN Null ELSE parent[child], Identity4)
  /\ IF child = Null
     THEN UNCHANGED <<parent, children, world, crashed>>
     ELSE LET H == add_child_links(Links(parent, children), p, child)
          IN /\ parent' = H.parent
             /\ children' = H.children
             /\ IF Terminates(H.children, child)
                THEN /\ world' = update_transform(world, H.children, local, child, world[p])
                     /\ UNCHANGED crashed
                ELSE \* the recursion of update_transform never returns
                     /\ crashed' = TRUE
                     /\ UNCHANGED world
  /\ UNCHANGED <<position, rotation, scale, local>>

\* Node::remove_child
RemoveChild(p, child) ==
  /\ ~crashed
  /\ lastOp' = Op("remove_child", p, child, IF child = Null THEN Null ELSE parent[child], Identity4)
  /\ LET H == remove_child(Links(parent, children), p, child)
     IN /\ parent' = H.parent
        /\ children' = H.children
  /\ UNCHANGED <<position, rotation, scale, local, world, crashed>>

\* Node::detach_from_parent
DetachFromParent(n) ==
  /\ ~crashed
  /\ lastOp' = Op("detach_from_parent", n, Null, parent[n], Identity4)
  /\ LET H == detach_from_parent(Links(parent, children), n)
     IN /\ parent' = H.parent
        /\ children' = H.children
  /\ UNCHANGED <<position, rotation, scale, local, world, crashed>>


\* set_position that also propagates the new transform down the tree.
SetPosition_propagating(n, v) ==
  /\ ~crashed
  /\ lastOp' = Op("set_position", n, Null, Null, Identity4)
  /\ position' = [position EXCEPT ![n] = v]
  /\ local' = [local EXCEPT ![n] = update_local_transform(v, rotation[n], scale[n])]
  /\ world' = update_transform(world, children, local', n, Identity4)
  /\ UNCHANGED <<rotation, scale, parent, children, crashed>>

\* Node::set_position
SetPosition(n, v) ==
  /\ ~crashed
  /\ lastOp' = Op("set_position", n, Null, Null, Identity4)
  /\ position' = [position EXCEPT ![n] = v]
  /\ local' = [local EXCEPT ![n] = update_local_transform(v, rotation[n], scale[n])]
  /\ UNCHANGED <<rotation, scale, world, parent, children, crashed>>

\* Node::set_rotation(const glm::quat&)
SetRotation(n, q) ==
  /\ ~crashed
  /\ lastOp' = Op("set_rotation", n, Null, Null, Identity4)
  /\ rotation' = [rotation EXCEPT ![n] = q]
  /\ local' = [local EXCEPT ![n] = update_local_transform(position[n], q, scale[n])]
  /\ UNCHANGED <<position, scale, world, parent, children, crashed>>

\* Node::set_rotation(const glm::vec3& euler_angles), angles in degrees
SetRotationEuler(n, e) ==
  /\ ~crashed
  /\ lastOp' = Op("set_rotation", n, Null, Null, Identity4)
  /\ LET q == QuatFromEuler(e)
     IN /\ rotation' = [rotation EXCEPT ![n] = q]
        /\ local' = [local EXCEPT ![n] = update_local_transform(position[n], q, scale[n])]
  /\ UNCHANGED <<position, scale, world, parent, children, crashed>>

\* Node::set_scale(const glm::vec3&)
SetScale(n, s) ==
  /\ ~crashed
  /\ lastOp' = Op("set_scale", n, Null, Null, Identity4)
  /\ scale' = [scale EXCEPT ![n] = s]
  /\ local' = [local EXCEPT ![n] = update_local_transform(position[n], rotation[n], s)]
  /\ UNCHANGED <<position, rotation, world, parent, children, crashed>>

\* Node::set_scale(float)
SetScaleUniform(n, f) ==
  /\ ~crashed
  /\ lastOp' = Op("set_scale", n, Null, Null, Identity4)
  /\ LET s == Vec3(f, f, f)
     IN /\ scale' = [scale EXCEPT ![n] = s]
        /\ local' = [local EXCEPT ![n] = update_local_transform(position[n], rotation[n], s)]
  /\ UNCHANGED <<position, rotation, world, parent, children, crashed>>

\* Node::rotate(angle, axis): new rotation = delta * old rotation
Rotate(n, angle, axis) ==
  /\ ~crashed
  /\ lastOp' = Op("rotate", n, Null, Null, Identity4)
  /\ LET delta_rotation == AngleAxis(angle, NormalizeAxis(axis))
         q == QuatMul(delta_rotation, rotation[n])
     IN /\ rotation' = [rotation EXCEPT ![n] = q]
        /\ local' = [local EXCEPT ![n] = update_local_transform(position[n], q, scale[n])]
  /\ UNCHANGED <<position, scale, world, parent, children, crashed>>

\* Node::update_transform, called from outside on node n.
UpdateTransform(n, parent_transform) ==
  /\ ~crashed
  /\ lastOp' = Op("update_transform", n, Null, Null, parent_transform)
  /\ world' = update_transform(world, children, local, n, parent_transform)
  /\ UNCHANGED <<position, rotation, scale, local, parent, children, crashed>>

\* The node a Scene creates in its constructor and owns as m_root.
SceneRoot == 1

\* Scene::update
SceneUpdate ==
  /\ ~crashed
  /\ lastOp' = Op("scene_update", SceneRoot, Null, Null, Identity4)
  /\ world' = update_transform(world, children, local, SceneRoot, Identity4)
  /\ UNCHANGED <<position, rotation, scale, local, parent, children, crashed>>

\* ------------------------------------------------------------------ scene objects
\* The meshes of the model: their shader, their material (Null: none), their
\* index count and their bounding sphere (local space, radius squared).
\* Meshes 1 and 2 share a material, mesh 2 has an index count that is no
\* multiple of three, mesh 4 has no material, mesh 5 has no shader.  Mesh 6 is
\* a cube with the corners (+-1, +-1, +-1): BoundingSphere::from_aabb gives it
\* the centre 0 and the radius |max - centre|, squared 3.
MeshTable ==
  << [shader |-> 1, material |-> 1, index_count |-> 36, center |-> Zero3, radius_sq |-> 9],
     [shader |-> 1, material |-> 1, index_count |-> 4, center |-> Zero3, radius_sq |-> 9],
     [shader |-> 1, material |-> 2, index_count |-> 6, center |-> Zero3, radius_sq |-> 9],
     [shader |-> 1, material |-> Null, index_count |-> 6, center |-> Zero3, radius_sq |-> 9],
     [shader |-> Null, material |-> 1, index_count |-> 36, center |-> Zero3, radius_sq |-> 9],
     [shader |-> 1, material |-> 1, index_count |-> 36, center |-> Zero3, radius_sq |-> 3],
     [shader |-> 2, material |-> 1, index_count |-> 36, center |-> Zero3, radius_sq |-> 9] >>
Meshes == 1..Len(MeshTable)
MeshOrNull == Meshes \cup {Null}
CubeMesh == 6
\* The mesh that shares its material with mesh 1 and has a shader of its own.
OtherShaderMesh == 7

\* The lights of the model, by type.
LightTable == <<"Directional", "Point", "Spot", "Directional", "Point">>
Lights == 1..Len(LightTable)
LightOrNull == Lights \cup {Null}

\* Renderer::m_default_material, a material distinct from those of the meshes.
DefaultMaterial == 3

\* RenderLayer::Opaque, RenderLayer::Transparent
LayerOpaque == 100
LayerTransparent == 200
\* The caps of bind_lights.
MaxDirLights == 4
MaxPointLights == 16
\* blur_passes in Renderer::render
BlurPasses == 10
\* Scene::m_shadow_resolution and the texture unit of the shadow map.
ShadowResolution == 2048
ShadowTextureUnit == 15

\* Framebuffers: the default one and the renderer's offscreen ones.
FbDefault == 0
FbHdr == 1
FbBright == 2
FbBlur0 == 3
FbBlur1 == 4

\* The Scene and the Camera the application holds; Null stands for nullptr.
TheScene == 1
TheCamera == 1

\* ------------------------------------------------------------------ Camera
\* Camera::Camera(fov, aspect, near, far)
NewCamera(fov, aspect, near, far) ==
  [position |-> Vec3(0, 0, 3), target |-> Zero3, up |-> Vec3(0, 1, 0),
   view |-> Identity4, projection |-> Perspective(fov, aspect, near, far),
   mode |-> "Perspective", view_dirty |-> TRUE]

\* Camera::get_view_matrix: the camera after the call; the result is its view.
get_view_matrix(c) ==
  IF c.view_dirty
  THEN [c EXCEPT !.view = LookAt(c.position, c.target, c.up), !.view_dirty = FALSE]
  ELSE c

\* Camera::get_view_projection_matrix, on the camera left by get_view_matrix.
get_view_projection_matrix(c) == MatMul(c.projection, get_view_matrix(c).view)

\* Camera::set_position
CameraSetPosition(v) ==
  /\ ~crashed
  /\ lastOp' = Op("camera_set_position", Null, Null, Null, Identity4)
  /\ cam' = [cam EXCEPT !.position = v, !.view_dirty = TRUE]
  /\ UNCHANGED <<nodeVars, engine, mesh, light, lightPos, scene, renderer, gl, gl_trace, crashed>>

\* Camera::set_target
CameraSetTarget(v) ==
  /\ ~crashed
  /\ lastOp' = Op("camera_set_target", Null, Null, Null, Identity4)
  /\ cam' = [cam EXCEPT !.target = v, !.view_dirty = TRUE]
  /\ UNCHANGED <<nodeVars, engine, mesh, light, lightPos, scene, renderer, gl, gl_trace, crashed>>

\* set_up that leaves the dirty flag alone.
set_up_keeps_flag(c, v) == [c EXCEPT !.up = v]

\* Camera::set_up: the camera after the call.
set_up(c, v) == [c EXCEPT !.up = v, !.view_dirty = TRUE]

\* Camera::set_up
CameraSetUp(v) ==
  /\ ~crashed
  /\ lastOp' = Op("camera_set_up", Null, Null, Null, Identity4)
  /\ cam' = set_up(cam, v)
  /\ UNCHANGED <<nodeVars, engine, mesh, light, lightPos, scene, renderer, gl, gl_trace, crashed>>

\* Camera::set_perspective
CameraSetPerspective(fov, aspect, near, far) ==
  /\ ~crashed
  /\ lastOp' = Op("camera_set_perspective", Null, Null, Null, Identity4)
  /\ cam' = [cam EXCEPT !.mode = "Perspective",
                        !.projection = Perspective(fov, aspect, near, far)]
  /\ UNCHANGED <<nodeVars, engine, mesh, light, lightPos, scene, renderer, gl, gl_trace, crashed>>

\* Camera::set_orthographic
CameraSetOrthographic(left, right, bottom, top, near, far) ==
  /\ ~crashed
  /\ lastOp' = Op("camera_set_orthographic", Null, Null, Null, Identity4)
  /\ cam' = [cam EXCEPT !.mode = "Orthographic",
                        !.projection = Ortho(left, right, bottom, top, near, far)]
  /\ UNCHANGED <<nodeVars, engine, mesh, light, lightPos, scene, renderer, gl, gl_trace, crashed>>

\* A call of Camera::get_view_matrix; xf of lastOp holds the matrix returned.
CameraGetViewMatrix ==
  /\ ~crashed
  /\ cam' = get_view_matrix(cam)
  /\ lastOp' = Op("get_view_matrix", Null, Null, Null, cam'.view)
  /\ UNCHANGED <<nodeVars, engine, mesh, light, lightPos, scene, renderer, gl, gl_trace, crashed>>

\* A call of Camera::get_view_projection_matrix; xf of lastOp holds the
\* matrix returned.
CameraGetViewProjectionMatrix ==
  /\ ~crashed
  /\ cam' = get_view_matrix(cam)
  /\ lastOp' = Op("get_view_projection_matrix", Null, Null, Null,
                  get_view_projection_matrix(cam))
  /\ UNCHANGED <<nodeVars, engine, mesh, light, lightPos, scene, renderer, gl, gl_trace, crashed>>

\* ------------------------------------------------------------------ Frustum
\* A plane keeps the normal and distance Frustum::update computes and the
\* squared length of that normal; Plane::normalize divides both by the length,
\* and the model divides where the plane is used.
PlaneOf(vp, k, sgn) ==
  LET n == Vec3(vp[1][4] + sgn * vp[1][k], vp[2][4] + sgn * vp[2][k], vp[3][4] + sgn * vp[3][k])
  IN [normal |-> n, distance |-> vp[4][4] + sgn * vp[4][k], length_sq |-> LengthSq3(n)]

\* Frustum::update: Left, Right, Bottom, Top, Near, Far
Frustum_update(vp) ==
  << PlaneOf(vp, 1, 1), PlaneOf(vp, 1, -1), PlaneOf(vp, 2, 1), PlaneOf(vp, 2, -1),
     PlaneOf(vp, 3, 1), PlaneOf(vp, 3, -1) >>

\* Plane::distance_to_point, times the length of the unnormalised normal.
distance_to_point(plane, point) == Dot3(plane.normal, point) - plane.distance

\* distance < -radius, for the normalised plane: d / |n| < -r  iff  d < 0 and d * d > r * r * |n|^2
BehindBy(plane, point, radius_sq) ==
  LET d == distance_to_point(plane, point)
  IN d < 0 /\ d * d > radius_sq * plane.length_sq

\* Plane::Plane(): the plane y = 0; Frustum::Frustum leaves six of them.
NewPlane == [normal |-> Vec3(0, 1, 0), distance |-> 0, length_sq |-> 1]
NewFrustum == [i \in 1..6 |-> NewPlane]

\* Frustum::contains_point
contains_point(planes, point) ==
  \A i \in 1..Len(planes) : ~(distance_to_point(planes[i], point) < 0)

\* contains_sphere that wants the whole sphere in front of every plane.
contains_sphere_whole(planes, sphere) ==
  \A i \in 1..Len(planes) :
    LET d == distance_to_point(planes[i], sphere.center)
    IN d >= 0 /\ d * d >= sphere.radius_sq * planes[i].length_sq

\* Frustum::contains_sphere
contains_sphere(planes, sphere) ==
  \A i \in 1..Len(planes) : ~BehindBy(planes[i], sphere.center, sphere.radius_sq)

\* A call frustum.contains_point(point); lastOp holds the frustum, the point
\* and the value returned.
FrustumContainsPoint(planes, point) ==
  /\ ~crashed
  /\ lastOp' = Op("contains_point", planes, point, Null, contains_point(planes, point))
  /\ UNCHANGED <<nodeVars, renderVars, crashed>>

\* A call frustum.contains_sphere(sphere); lastOp holds the frustum, the
\* sphere and the value returned.
FrustumContainsSphere(planes, sphere) ==
  /\ ~crashed
  /\ lastOp' = Op("contains_sphere", planes, sphere, Null, contains_sphere(planes, sphere))
  /\ UNCHANGED <<nodeVars, renderVars, crashed>>

Max(a, b) == IF a >= b THEN a ELSE b

\* BoundingSphere::transform
BoundingSphere_transform(sphere, matrix) ==
  LET c == MatVec(matrix, <<sphere.center[1], sphere.center[2], sphere.center[3], 1>>)
      sx == LengthSq3(matrix[1])
      sy == LengthSq3(matrix[2])
      sz == LengthSq3(matrix[3])
  IN [center |-> Vec3(c[1], c[2], c[3]), radius_sq |-> sphere.radius_sq * Max(sx, Max(sy, sz))]

\* Most levels of a LOD object.
MaxLevels == 3

\* ------------------------------------------------------------------ AABB
\* glm::min and glm::max of two vectors, componentwise.
Min3(a, b) == [i \in 1..3 |-> IF a[i] <= b[i] THEN a[i] ELSE b[i]]
Max3(a, b) == [i \in 1..3 |-> IF a[i] >= b[i] THEN a[i] ELSE b[i]]

\* AABB::AABB()
NewAABB == [min |-> Zero3, max |-> Zero3]

\* expand that moves the max corner only.
AABB_expand_max_only(box, point) == [min |-> box.min, max |-> Max3(box.max, point)]

\* AABB::expand: the box after the call.
AABB_expand(box, point) == [min |-> Min3(box.min, point), max |-> Max3(box.max, point)]

\* AABB::merge: the box after the call.
AABB_merge(box, other) == [min |-> Min3(box.min, other.min), max |-> Max3(box.max, other.max)]

\* A call box.expand(point) on the box the last call left; lastOp holds the
\* box before, the point and the box after.
AabbExpand(point) ==
  /\ ~crashed
  /\ lastOp' = Op("expand", lastOp.xf, point, Null, AABB_expand(lastOp.xf, point))
  /\ UNCHANGED <<nodeVars, renderVars, crashed>>

\* A call box.merge(other) on the box the last call left.
AabbMerge(other) ==
  /\ ~crashed
  /\ lastOp' = Op("merge", lastOp.xf, other, Null, AABB_merge(lastOp.xf, other))
  /\ UNCHANGED <<nodeVars, renderVars, crashed>>

\* ------------------------------------------------------------------ LOD
\* LODLevel::LODLevel(m, distance)
LODLevel(m, distance) == [mesh |-> m, max_distance_sq |-> distance * distance]

\* LOD::add_level: m_levels after the call.
add_level(levels, m, max_distance) ==
  IF m = Null THEN levels ELSE Append(levels, LODLevel(m, max_distance))

\* get_mesh that takes a level only below its threshold.
get_mesh_below(levels, distance_sq) ==
  IF levels = <<>> THEN Null
  ELSE LET hit == {i \in 1..Len(levels) : distance_sq < levels[i].max_distance_sq}
       IN IF hit = {} THEN levels[Len(levels)].mesh
          ELSE levels[CHOOSE i \in hit : \A j \in hit : i <= j].mesh

\* LOD::get_mesh(distance_sq), the loop from level i on.
RECURSIVE get_mesh_from(_, _, _)
get_mesh_from(levels, distance_sq, i) ==
  IF i > Len(levels) THEN levels[Len(levels)].mesh
  ELSE IF distance_sq <= levels[i].max_distance_sq THEN levels[i].mesh
  ELSE get_mesh_from(levels, distance_sq, i + 1)

\* LOD::get_mesh(distance_sq)
get_mesh(levels, distance_sq) ==
  IF levels = <<>> THEN Null ELSE get_mesh_from(levels, distance_sq, 1)

\* The calls on one LOD object; lastOp holds m_levels after the call in
\* self, the arguments in arg and the value returned in xf.
LodAddLevel(m, max_distance) ==
  /\ ~crashed
  /\ Len(lastOp.self) < MaxLevels
  /\ lastOp' = Op("add_level", add_level(lastOp.self, m, max_distance),
                  <<m, max_distance>>, Null, Null)
  /\ UNCHANGED <<nodeVars, renderVars, crashed>>

LodGetMesh(distance_sq) ==
  /\ ~crashed
  /\ lastOp' = Op("get_mesh", lastOp.self, distance_sq, Null, get_mesh(lastOp.self, distance_sq))
  /\ UNCHANGED <<nodeVars, renderVars, crashed>>

LodClear ==
  /\ ~crashed
  /\ lastOp' = Op("clear", <<>>, Null, Null, Null)
  /\ UNCHANGED <<nodeVars, renderVars, crashed>>

\* ------------------------------------------------------------------ Renderer
Ev(name, x, y, z) == [ev |-> name, x |-> x, y |-> y, z |-> z]

\* Renderer::Renderer
NewRenderer(bloom) ==
  [draw_calls |-> 0, triangles_count |-> 0, render_queue |-> <<>>,
   last_bound_material |-> Null,
   directional_lights |-> <<>>, point_lights |-> <<>>, spot_lights |-> <<>>,
   render_mode |-> "Solid", depth_test_enabled |-> TRUE, culling_enabled |-> TRUE,
   blending_enabled |-> FALSE, bloom_enabled |-> bloom, shadow_map |-> Null]

\* The GL state after Renderer::Renderer.
NewGl ==
  [depth_test |-> TRUE, cull_face |-> TRUE, cull_mode |-> "BACK", blend |-> FALSE,
   polygon_mode |-> "FILL", framebuffer |-> FbDefault]

\* Renderer::render returns at once: if (!scene || !camera)
render_is_noop_scene_only(s, c) == s = Null

render_is_noop(s, c) == s = Null \/ c = Null

\* Renderer::render without clear_material_cache().
render_reset_keeps_cache(R) ==
  [R EXCEPT !.draw_calls = 0, !.triangles_count = 0, !.render_queue = <<>>]

\* Renderer::render: the counters, the queue and the material cache are reset.
render_reset(R) ==
  [R EXCEPT !.draw_calls = 0, !.triangles_count = 0, !.render_queue = <<>>,
            !.last_bound_material = Null]

\* The traversal that takes each node's stored world transform in place of
\* the transform it accumulates.
RECURSIVE build_render_queue_culled_stored(_, _, _, _)
build_render_queue_culled_stored(work, c, out_items, frustum) ==
  IF work = <<>> THEN out_items
  ELSE LET node == work[1][1]
       IN IF node = Null
          THEN build_render_queue_culled_stored(Tail(work), c, out_items, frustum)
          ELSE LET cur_transform == world[node]
                   m == mesh[node]
                   item == [mesh |-> m, transform |-> cur_transform,
                            distance_sq |-> LengthSq3(Sub3(c.position, Origin4(cur_transform))),
                            is_transparent |-> FALSE, layer |-> LayerOpaque]
                   passes ==
                     /\ m # Null
                     /\ contains_sphere(frustum,
                          BoundingSphere_transform(
                            [center |-> MeshTable[m].center, radius_sq |-> MeshTable[m].radius_sq],
                            cur_transform))
                   calls == [i \in 1..Len(children[node]) |-> <<children[node][i], cur_transform>>]
               IN build_render_queue_culled_stored(calls \o Tail(work), c,
                    IF passes THEN Append(out_items, item) ELSE out_items, frustum)

\* The traversal that does not descend below a node it has culled.
RECURSIVE build_render_queue_culled_prunes(_, _, _, _)
build_render_queue_culled_prunes(work, c, out_items, frustum) ==
  IF work = <<>> THEN out_items
  ELSE LET node == work[1][1]
       IN IF node = Null
          THEN build_render_queue_culled_prunes(Tail(work), c, out_items, frustum)
          ELSE LET cur_transform == MatMul(work[1][2], local[node])
                   m == mesh[node]
                   item == [mesh |-> m, transform |-> cur_transform,
                            distance_sq |-> LengthSq3(Sub3(c.position, Origin4(cur_transform))),
                            is_transparent |-> FALSE, layer |-> LayerOpaque]
                   passes ==
                     /\ m # Null
                     /\ contains_sphere(frustum,
                          BoundingSphere_transform(
                            [center |-> MeshTable[m].center, radius_sq |-> MeshTable[m].radius_sq],
                            cur_transform))
                   calls == [i \in 1..Len(children[node]) |-> <<children[node][i], cur_transform>>]
               IN build_render_queue_culled_prunes(
                    (IF m # Null /\ ~passes THEN <<>> ELSE calls) \o Tail(work), c,
                    IF passes THEN Append(out_items, item) ELSE out_items, frustum)

\* Renderer::build_render_queue_culled.  work is the stack of pending calls
\* <<node, par_transform>>.
RECURSIVE build_render_queue_culled(_, _, _, _)
build_render_queue_culled(work, c, out_items, frustum) ==
  IF work = <<>> THEN out_items
  ELSE LET node == work[1][1]
       IN IF node = Null
          THEN build_render_queue_culled(Tail(work), c, out_items, frustum)
          ELSE LET cur_transform == MatMul(work[1][2], local[node])
                   m == mesh[node]
                   item == [mesh |-> m, transform |-> cur_transform,
                            distance_sq |-> LengthSq3(Sub3(c.position, Origin4(cur_transform))),
                            is_transparent |-> FALSE, layer |-> LayerOpaque]
                   passes ==
                     /\ m # Null
                     /\ contains_sphere(frustum,
                          BoundingSphere_transform(
                            [center |-> MeshTable[m].center, radius_sq |-> MeshTable[m].radius_sq],
                            cur_transform))
                   calls == [i \in 1..Len(children[node]) |-> <<children[node][i], cur_transform>>]
               IN build_render_queue_culled(calls \o Tail(work), c,
                    IF passes THEN Append(out_items, item) ELSE out_items, frustum)

\* Pointers are compared by address; the model takes the object numbers as addresses.
ShaderAddr(m) == MeshTable[m].shader
MaterialAddr(m) == MeshTable[m].material

\* The comparison without the material step.
RenderItemLess_no_material(a, b) ==
  IF a.layer # b.layer THEN a.layer < b.layer
  ELSE IF ShaderAddr(a.mesh) # ShaderAddr(b.mesh) THEN ShaderAddr(a.mesh) < ShaderAddr(b.mesh)
  ELSE IF a.is_transparent THEN a.distance_sq > b.distance_sq
  ELSE a.distance_sq < b.distance_sq

\* The comparison of Renderer::sort_render_queue.
RenderItemLess(a, b) ==
  IF a.layer # b.layer THEN a.layer < b.layer
  ELSE IF ShaderAddr(a.mesh) # ShaderAddr(b.mesh) THEN ShaderAddr(a.mesh) < ShaderAddr(b.mesh)
  ELSE IF MaterialAddr(a.mesh) # MaterialAddr(b.mesh) THEN MaterialAddr(a.mesh) < MaterialAddr(b.mesh)
  ELSE IF a.is_transparent THEN a.distance_sq > b.distance_sq
  ELSE a.distance_sq < b.distance_sq

\* What std::sort requires of its comparison on the items it sorts.
StrictWeakOrder(items) ==
  LET I == 1..Len(items)
      lt(i, j) == RenderItemLess(items[i], items[j])
      eq(i, j) == ~lt(i, j) /\ ~lt(j, i)
  IN /\ \A i \in I : ~lt(i, i)
     /\ \A i, j, k \in I : lt(i, j) /\ lt(j, k) => lt(i, k)
     /\ \A i, j, k \in I : eq(i, j) /\ eq(j, k) => eq(i, k)

Rearrangements(items) ==
  {[i \in 1..Len(items) |-> items[pi[i]]] : pi \in Permutations(1..Len(items))}

\* Renderer::sort_render_queue: std::sort leaves the items in some order in
\* which no item is less than an earlier one; items that compare equal may
\* come out in any order.  Where the comparison is no strict weak ordering
\* of the items the behaviour of std::sort is undefined: the items come out
\* in an order the comparison does not determine.
sort_render_queue(items) ==
  IF items = <<>> THEN {<<>>}
  ELSE IF StrictWeakOrder(items)
  THEN {q \in Rearrangements(items) :
          \A i, j \in 1..Len(q) : i < j => ~RenderItemLess(q[j], q[i])}
  ELSE Rearrangements(items)

\* Renderer::collect_lights, the loop over the scene's light list.
RECURSIVE collect_scene_lights(_, _, _)
collect_scene_lights(L, lights, i) ==
  IF i > Len(lights) THEN L
  ELSE LET l == lights[i]
       IN collect_scene_lights(
            CASE LightTable[l] = "Directional" -> [L EXCEPT !.directional = Append(@, l)]
              [] LightTable[l] = "Point" -> [L EXCEPT !.point = Append(@, l)]
              [] LightTable[l] = "Spot" -> [L EXCEPT !.spot = Append(@, l)],
            lights, i + 1)

\* Renderer::collect_node_lights.  work is the stack of pending calls.
RECURSIVE collect_node_lights(_, _)
collect_node_lights(L, work) ==
  IF work = <<>> THEN L
  ELSE LET node == work[1]
       IN IF node = Null THEN collect_node_lights(L, Tail(work))
          ELSE LET l == light[node]
                   L1 == IF l # Null /\ LightTable[l] \in {"Point", "Spot"}
                         THEN [L EXCEPT !.pos[l] = position[node]]
                         ELSE L
                   L2 == IF l = Null THEN L1
                         ELSE CASE LightTable[l] = "Directional" -> [L1 EXCEPT !.directional = Append(@, l)]
                                [] LightTable[l] = "Point" -> [L1 EXCEPT !.point = Append(@, l)]
                                [] LightTable[l] = "Spot" -> [L1 EXCEPT !.spot = Append(@, l)]
               IN collect_node_lights(L2, children[node] \o Tail(work))

\* Renderer::collect_lights: the three lists and the lights' positions afterwards.
collect_lights(s) ==
  collect_node_lights(
    collect_scene_lights([directional |-> <<>>, point |-> <<>>, spot |-> <<>>, pos |-> lightPos],
                         s.lights, 1),
    <<SceneRoot>>)

Min(a, b) == IF a <= b THEN a ELSE b

\* bind_lights that uploads every collected light.
bind_lights_uncapped(R, shader) ==
  Ev("bind_lights", shader,
     [num |-> Len(R.directional_lights), slots |-> R.directional_lights],
     [num |-> Len(R.point_lights), slots |-> R.point_lights])

\* Renderer::bind_lights: u_NumDirLights and the lights written to
\* u_DirLights[i], then u_NumPointLights and the lights written to
\* u_PointLights[i].
bind_lights(R, shader) ==
  LET num_dir_lights == Min(Len(R.directional_lights), MaxDirLights)
      num_point_lights == Min(Len(R.point_lights), MaxPointLights)
  IN Ev("bind_lights", shader,
        [num |-> num_dir_lights,
         slots |-> [i \in 1..num_dir_lights |-> R.directional_lights[i]]],
        [num |-> num_point_lights,
         slots |-> [i \in 1..num_point_lights |-> R.point_lights[i]]])

\* bind_material without the comparison with the material bound last.
bind_material_always(acc, material, shader) ==
  IF material = Null \/ shader = Null THEN acc
  ELSE [R |-> [acc.R EXCEPT !.last_bound_material = material],
        trace |-> Append(acc.trace, Ev("bind_material", material, shader, 0))]

\* Renderer::bind_material.  acc holds the renderer and the GL work so far.
bind_material(acc, material, shader) ==
  IF material = Null \/ shader = Null THEN acc
  ELSE IF material = acc.R.last_bound_material THEN acc
  ELSE [R |-> [acc.R EXCEPT !.last_bound_material = material],
        trace |-> Append(acc.trace, Ev("bind_material", material, shader, 0))]

\* render_mesh that returns when the material is the one bound last.
render_mesh_skips_cached(acc, item) ==
  LET shader == MeshTable[item.mesh].shader
      material == IF MeshTable[item.mesh].material # Null
                  THEN MeshTable[item.mesh].material ELSE DefaultMaterial
  IN IF shader = Null \/ material = acc.R.last_bound_material THEN acc
     ELSE LET a1 == [acc EXCEPT !.trace = @ \o <<Ev("bind_vertex_array", item.mesh, 0, 0),
                                                 Ev("bind_shader", shader, 0, 0),
                                                 bind_lights(acc.R, shader)>>]
              a2 == bind_material(a1, material, shader)
          IN [R |-> [a2.R EXCEPT !.draw_calls = @ + 1,
                                 !.triangles_count =
                                   @ + (MeshTable[item.mesh].index_count \div 3)],
              trace |-> Append(a2.trace,
                               Ev("draw", item.mesh, MeshTable[item.mesh].index_count, 0))]

\* Renderer::render_mesh, called with a camera that is not null.  The counters
\* are unsigned int; a frame of the model counts a handful of draws, so they
\* never wrap.
render_mesh(acc, item) ==
  IF item.mesh = Null THEN acc
  ELSE LET shader == MeshTable[item.mesh].shader
       IN IF shader = Null THEN acc
          ELSE LET a1 == [acc EXCEPT !.trace = @ \o <<Ev("bind_vertex_array", item.mesh, 0, 0),
                                                      Ev("bind_shader", shader, 0, 0),
                                                      bind_lights(acc.R, shader)>>]
                   material == MeshTable[item.mesh].material
                   a2 == IF material # Null
                         THEN bind_material(a1, material, shader)
                         ELSE bind_material(a1, DefaultMaterial, shader)
               IN [R |-> [a2.R EXCEPT !.draw_calls = @ + 1,
                                      !.triangles_count =
                                        @ + (MeshTable[item.mesh].index_count \div 3)],
                   trace |-> Append(a2.trace,
                                    Ev("draw", item.mesh, MeshTable[item.mesh].index_count, 0))]

\* Renderer::render, the loop over the render queue.
RECURSIVE render_queue_items(_, _, _)
render_queue_items(acc, items, i) ==
  IF i > Len(items) THEN acc
  ELSE render_queue_items(render_mesh(acc, items[i]), items, i + 1)

\* The blur loop without the case of the first pass: every pass reads the
\* other blur buffer.
RECURSIVE blur_passes_no_first(_, _, _)
blur_passes_no_first(trace, i, horizontal) ==
  IF i >= BlurPasses THEN trace
  ELSE blur_passes_no_first(
         Append(trace,
                Ev("blur_pass",
                   IF horizontal THEN FbBlur1 ELSE FbBlur0,
                   IF horizontal THEN FbBlur0 ELSE FbBlur1,
                   IF horizontal THEN 1 ELSE 0)),
         i + 1, ~horizontal)

\* Renderer::render, the Gaussian blur loop: pass i writes one blur
\* framebuffer and reads the bright-pass buffer (i = 0) or the other one.
RECURSIVE blur_passes(_, _, _)
blur_passes(trace, i, horizontal) ==
  IF i >= BlurPasses THEN trace
  ELSE blur_passes(
         Append(trace,
                Ev("blur_pass",
                   IF horizontal THEN FbBlur1 ELSE FbBlur0,
                   IF i = 0 THEN FbBright ELSE IF horizontal THEN FbBlur0 ELSE FbBlur1,
                   IF horizontal THEN 1 ELSE 0)),
         i + 1, ~horizontal)

\* The post-process passes with the composite ahead of the bloom passes.
post_process_composite_first(R, trace) ==
  LET t1 == Append(trace, Ev("composite", FbDefault, FbHdr,
                             IF R.bloom_enabled THEN FbBlur0 ELSE -1))
  IN IF R.bloom_enabled
     THEN blur_passes(Append(t1, Ev("bright_pass", FbBright, FbHdr, 0)), 0, TRUE)
     ELSE t1

\* Renderer::render, from the post-process pass to the end.
post_process(R, trace) ==
  LET t1 == IF R.bloom_enabled
            THEN blur_passes(Append(trace, Ev("bright_pass", FbBright, FbHdr, 0)), 0, TRUE)
            ELSE trace
  IN Append(t1, Ev("composite", FbDefault, FbHdr, IF R.bloom_enabled THEN FbBlur0 ELSE -1))

\* Renderer::render
Render(s, c) ==
  /\ ~crashed
  /\ lastOp' = Op("render", s, c, Null, Identity4)
  /\ IF render_is_noop(s, c)
     THEN /\ gl_trace' = <<>>
          /\ UNCHANGED <<cam, renderer, gl, lightPos>>
     ELSE LET cam1 == get_view_matrix(cam)
              frustum == Frustum_update(get_view_projection_matrix(cam))
              R1 == render_reset(renderer)
              queue == build_render_queue_culled(<< <<SceneRoot, Identity4>> >>, cam1, <<>>, frustum)
              L == collect_lights(scene)
          IN \E sorted \in sort_render_queue(queue) :
               LET R2 == [R1 EXCEPT !.render_queue = sorted,
                                    !.directional_lights = L.directional,
                                    !.point_lights = L.point,
                                    !.spot_lights = L.spot]
                   t0 == <<Ev("bind_framebuffer", FbHdr, 0, 0), Ev("clear", FbHdr, 0, 0)>>
                         \o (IF scene.skybox THEN <<Ev("skybox", FbHdr, 0, 0)>> ELSE <<>>)
                   drawn == render_queue_items([R |-> R2, trace |-> t0], sorted, 1)
               IN /\ renderer' = drawn.R
                  /\ gl_trace' = post_process(drawn.R, drawn.trace)
                  /\ cam' = cam1
                  /\ lightPos' = L.pos
                  /\ gl' = [gl EXCEPT !.framebuffer = FbDefault,
                                      !.polygon_mode = "FILL",
                                      !.depth_test = renderer.depth_test_enabled]
  /\ UNCHANGED <<nodeVars, engine, mesh, light, scene, crashed>>

\* Renderer::sort_render_queue(m_render_queue)
SortRenderQueue ==
  /\ ~crashed
  /\ lastOp' = Op("sort_render_queue", Null, Null, Null, Identity4)
  /\ \E sorted \in sort_render_queue(renderer.render_queue) :
       renderer' = [renderer EXCEPT !.render_queue = sorted]
  /\ UNCHANGED <<nodeVars, engine, mesh, light, lightPos, scene, cam, gl, gl_trace, crashed>>

\* Renderer::setup_shadows: the first directional light of the scene's list.
FirstDirectional(lights) ==
  LET ds == SelectSeq(lights, LAMBDA l : LightTable[l] = "Directional")
  IN IF ds = <<>> THEN Null ELSE ds[1]

\* ShadowRenderer::render_directional_shadow with a scene, a light and a
\* shadow map: the GL state it leaves behind.
render_directional_shadow(g) == [g EXCEPT !.cull_mode = "FRONT", !.framebuffer = FbDefault]

\* ShadowRenderer::render_point_shadow with a scene, a light and a shadow map.
render_point_shadow(g) == [g EXCEPT !.cull_mode = "BACK", !.framebuffer = FbDefault]

\* Renderer::setup_shadows(scene, shader), a call of the application; no
\* function of the renderer calls it.  The GL work is appended to the trace.
SetupShadows(s, shader) ==
  /\ ~crashed
  /\ lastOp' = Op("setup_shadows", s, shader, Null, Identity4)
  /\ IF s = Null \/ shader = Null
     THEN UNCHANGED <<renderer, gl_trace, gl>>
     ELSE IF ~scene.shadows_enabled
     THEN /\ gl_trace' = Append(gl_trace, Ev("set_use_shadows", shader, 0, 0))
          /\ UNCHANGED <<renderer, gl>>
     ELSE LET directional_light == FirstDirectional(scene.lights)
          IN /\ renderer' = [renderer EXCEPT !.shadow_map =
                               IF @ = Null THEN ShadowResolution ELSE @]
             /\ gl_trace' =
                  IF directional_light = Null
                  THEN Append(gl_trace, Ev("set_use_shadows", shader, 0, 0))
                  ELSE gl_trace \o <<Ev("shadow_pass", directional_light, 0, 0),
                                     Ev("bind_shadow_map", shader, ShadowTextureUnit, 0),
                                     Ev("set_use_shadows", shader, 1, 0)>>
             /\ gl' = IF directional_light = Null THEN gl ELSE render_directional_shadow(gl)
  /\ UNCHANGED <<nodeVars, engine, mesh, light, lightPos, scene, cam, crashed>>

\* ShadowRenderer::render_point_shadow(scene, light, shadow_map), a call of the
\* application with a cubemap shadow map of its own.
RenderPointShadow(s, l) ==
  /\ ~crashed
  /\ lastOp' = Op("render_point_shadow", s, l, Null, Identity4)
  /\ IF s = Null \/ l = Null
     THEN UNCHANGED <<gl, gl_trace>>
     ELSE /\ gl' = render_point_shadow(gl)
          /\ gl_trace' = Append(gl_trace, Ev("point_shadow_pass", l, 0, 0))
  /\ UNCHANGED <<nodeVars, engine, mesh, light, lightPos, scene, cam, renderer, crashed>>

\* Renderer::set_culling
SetCulling(enabled) ==
  /\ ~crashed
  /\ lastOp' = Op("set_culling", Null, enabled, Null, Identity4)
  /\ renderer' = [renderer EXCEPT !.culling_enabled = enabled]
  /\ gl' = IF enabled THEN [gl EXCEPT !.cull_face = TRUE, !.cull_mode = "BACK"]
           ELSE [gl EXCEPT !.cull_face = FALSE]
  /\ UNCHANGED <<nodeVars, engine, mesh, light, lightPos, scene, cam, gl_trace, crashed>>

\* Scene::set_shadows_enabled
SetShadowsEnabled(b) ==
  /\ ~crashed
  /\ lastOp' = Op("set_shadows_enabled", Null, Null, Null, Identity4)
  /\ scene' = [scene EXCEPT !.shadows_enabled = b]
  /\ UNCHANGED <<nodeVars, engine, mesh, light, lightPos, cam, renderer, gl, gl_trace, crashed>>

\* Node::set_mesh
SetMesh(n, m) ==
  /\ ~crashed
  /\ lastOp' = Op("set_mesh", n, Null, Null, Identity4)
  /\ mesh' = [mesh EXCEPT ![n] = m]
  /\ UNCHANGED <<nodeVars, engine, light, lightPos, scene, cam, renderer, gl, gl_trace, crashed>>

\* Attaching a light to a node (read back by has_light / get_light).
SetLight(n, l) ==
  /\ ~crashed
  /\ lastOp' = Op("set_light", n, Null, Null, Identity4)
  /\ light' = [light EXCEPT ![n] = l]
  /\ UNCHANGED <<nodeVars, engine, mesh, lightPos, scene, cam, renderer, gl, gl_trace, crashed>>

\* Scene::add_light
SceneAddLight(l) ==
  /\ ~crashed
  /\ lastOp' = Op("add_light", Null, Null, Null, Identity4)
  /\ scene' = IF l # Null THEN [scene EXCEPT !.lights = Append(@, l)] ELSE scene
  /\ UNCHANGED <<nodeVars, engine, mesh, light, lightPos, cam, renderer, gl, gl_trace, crashed>>


\* ------------------------------------------------------------------ Engine
\* The key codes told apart (they stand for 0..511), and GLFW_KEY_UNKNOWN.
NumKeys == 2
Keys == 1..NumKeys
KeyUnknown == -1
KeyInputs == Keys \cup {KeyUnknown}
KeyActions == {"GLFW_PRESS", "GLFW_RELEASE", "GLFW_REPEAT"}
NoKeys == [k \in Keys |-> FALSE]

\* What an update callback reads of the keyboard.
Reading(pressed, just_pressed, just_released) ==
  [pressed |-> pressed, just_pressed |-> just_pressed, just_released |-> just_released]

\* Engine's input members after construction.  events and down are the window
\* system's side: the key events queued for the next glfwPollEvents and the
\* keys physically held.  The other fields are history: frames, the iterations
\* of run so far; seen, what the update callback of the last iteration read;
\* polled, the events the last glfwPollEvents delivered; polled_before, the
\* events delivered by the glfwPollEvents before that update callback; held
\* and held_before, the keys whose last delivered event was a press, after
\* polled and after polled_before.
NewEngine ==
  [key_states |-> NoKeys, key_just_pressed |-> NoKeys, key_just_released |-> NoKeys,
   events |-> <<>>, down |-> [k \in KeyInputs |-> FALSE],
   frames |-> 0, seen |-> Reading(NoKeys, NoKeys, NoKeys),
   polled |-> <<>>, polled_before |-> <<>>,
   held |-> NoKeys, held_before |-> NoKeys]

\* Engine::update_input_state
update_input_state(e) ==
  [e EXCEPT !.key_just_pressed = NoKeys, !.key_just_released = NoKeys]

\* Engine::key_callback
key_callback(e, key, action) ==
  IF key \notin Keys THEN e
  ELSE IF action = "GLFW_PRESS"
       THEN [e EXCEPT !.key_states[key] = TRUE, !.key_just_pressed[key] = TRUE]
       ELSE IF action = "GLFW_RELEASE"
            THEN [e EXCEPT !.key_states[key] = FALSE, !.key_just_released[key] = TRUE]
            ELSE e

\* glfwPollEvents: the queued events reach key_callback in order.
RECURSIVE glfwPollEvents(_, _)
glfwPollEvents(e, events) ==
  IF events = <<>> THEN e
  ELSE glfwPollEvents(key_callback(e, Head(events).key, Head(events).action), Tail(events))

\* Engine::is_key_pressed, is_key_just_pressed, is_key_just_released
is_key_pressed(e, key) == IF key \in Keys THEN e.key_states[key] ELSE FALSE
is_key_just_pressed(e, key) == IF key \in Keys THEN e.key_just_pressed[key] ELSE FALSE
is_key_just_released(e, key) == IF key \in Keys THEN e.key_just_released[key] ELSE FALSE

\* The keys whose last press or release among the events is a press; a key
\* without such an event stays as it was.
HeldAfter(held, events) ==
  [k \in Keys |->
     LET at == {i \in 1..Len(events) : events[i].key = k /\ events[i].action # "GLFW_REPEAT"}
     IN IF at = {} THEN held[k]
        ELSE events[CHOOSE i \in at : \A j \in at : j <= i].action = "GLFW_PRESS"]

\* One iteration of the loop of Engine::run: update_input_state, the update
\* callback (which reads the keyboard), glfwSwapBuffers, glfwPollEvents.
EngineRun ==
  /\ ~crashed
  /\ LET cleared == update_input_state(engine)
         seen == Reading([k \in Keys |-> is_key_pressed(cleared, k)],
                         [k \in Keys |-> is_key_just_pressed(cleared, k)],
                         [k \in Keys |-> is_key_just_released(cleared, k)])
         polled == glfwPollEvents(cleared, engine.events)
     IN engine' = [polled EXCEPT !.events = <<>>, !.frames = @ + 1, !.seen = seen,
                                 !.polled = engine.events,
                                 !.polled_before = engine.polled,
                                 !.held = HeldAfter(engine.held, engine.events),
                                 !.held_before = engine.held]
  /\ lastOp' = Op("run", Null, Null, Null, Identity4)
  /\ UNCHANGED <<nodeVars, mesh, light, lightPos, scene, cam, renderer, gl, gl_trace, crashed>>

\* The window system queues a key event: a press of a key that is up, a
\* repeat or a release of a key that is held.
WindowKeyEvent(key, action) ==
  /\ ~crashed
  /\ engine.down[key] = (action # "GLFW_PRESS")
  /\ engine' = [engine EXCEPT !.events = Append(@, [key |-> key, action |-> action]),
                              !.down[key] = (action # "GLFW_RELEASE")]
  /\ lastOp' = Op("key_event", Null, Null, Null, Identity4)
  /\ UNCHANGED <<nodeVars, mesh, light, lightPos, scene, cam, renderer, gl, gl_trace, crashed>>


\* ------------------------------------------------------------------ Spec
\* Node::Node for every node: default members, then update_local_transform().
InitNodes ==
  /\ position = [n \in Nodes |-> Zero3]
  /\ rotation = [n \in Nodes |-> QuatIdentity]
  /\ scale = [n \in Nodes |-> One3]
  /\ local = [n \in Nodes |-> update_local_transform(Zero3, QuatIdentity, One3)]
  /\ world = [n \in Nodes |-> Identity4]
  /\ parent = [n \in Nodes |-> Null]
  /\ children = [n \in Nodes |-> <<>>]

\* No mesh and no light on any node; a Scene, a Camera and a Renderer as
\* their constructors leave them.
InitRenderDefaults ==
  /\ engine = NewEngine
  /\ mesh = [n \in Nodes |-> Null]
  /\ light = [n \in Nodes |-> Null]
  /\ lightPos = [l \in Lights |-> Zero3]
  /\ scene = [lights |-> <<>>, skybox |-> FALSE, shadows_enabled |-> TRUE]
  /\ cam = NewCamera(90, 1, 2, 6)
  /\ renderer = NewRenderer(FALSE)
  /\ gl = NewGl
  /\ gl_trace = <<>>

Init ==
  /\ InitNodes
  /\ InitRenderDefaults
  /\ crashed = FALSE
  /\ steps = 0
  /\ lastOp = NoOp

\* The hierarchy operations, in any order and with any arguments.
Next ==
  \/ \E p \in Nodes, c \in NodeOrNull : AddChild(p, c) /\ UNCHANGED <<steps, renderVars>>
  \/ \E p \in Nodes, c \in NodeOrNull : RemoveChild(p, c) /\ UNCHANGED <<steps, renderVars>>
  \/ \E n \in Nodes : DetachFromParent(n) /\ UNCHANGED <<steps, renderVars>>

Spec == Init /\ [][Next]_vars

\* ------------------------------------------------------------------ SpecTransform
\* Number of nodes the step-bounded specifications link into trees.
TreeSize == 3
TreeNodes == 1..TreeSize

\* Inputs of the transform operations.
AxisX(k) == Vec3(k, 0, 0)
PositionInputs == {AxisX(k) : k \in 1..MaxCoord} \cup {Vec3(0, 1, 0)}
QuatInputs == {QuatIdentity, Quat(0, 0, 0, 1)}
EulerInputs == {Vec3(180, 0, 0), Vec3(0, 0, 180)}
ScaleInputs == {Vec3(2, 1, 1), Vec3(1, 1, 1)}
UniformScaleInputs == {2, 3}
AxisInputs == {Vec3(0, 0, 2), Vec3(1, 0, 0)}
ParentTransformInputs == {Identity4, Translate(Vec3(1, 0, 0)), ScaleMat(Vec3(2, 2, 2))}

\* The trees over TreeNodes built by add_child calls in the order of the node
\* numbers: pm[n] is the node on which add_child(n) was called, Null for none.
ParentMaps == {pm \in [TreeNodes -> NodeOrNull] : \A n \in TreeNodes : pm[n] < n}

RECURSIVE BuildLinks(_, _, _)
BuildLinks(H, pm, n) ==
  IF n > TreeSize THEN H
  ELSE BuildLinks(IF pm[n] = Null THEN H ELSE add_child_links(H, pm[n], n), pm, n + 1)

FreshLinks == Links([n \in Nodes |-> Null], [n \in Nodes |-> <<>>])

\* The state after: construct the nodes, link them with add_child (every
\* transform is still the identity), then set_position on each tree node with a
\* position on the x axis.  World transforms are those add_child left behind.
InitTree ==
  /\ \E pm \in ParentMaps :
       LET H == BuildLinks(FreshLinks, pm, 1)
       IN parent = H.parent /\ children = H.children
  /\ \E k \in [TreeNodes -> 0..MaxCoord] :
       /\ position = [n \in Nodes |-> IF n \in TreeNodes THEN AxisX(k[n]) ELSE Zero3]
       /\ local = [n \in Nodes |->
                     update_local_transform(IF n \in TreeNodes THEN AxisX(k[n]) ELSE Zero3,
                                            QuatIdentity, One3)]
  /\ rotation = [n \in Nodes |-> QuatIdentity]
  /\ scale = [n \in Nodes |-> One3]
  /\ world = [n \in Nodes |-> Identity4]
  /\ InitRenderDefaults
  /\ crashed = FALSE
  /\ steps = 0
  /\ lastOp = NoOp

Tick == steps < MaxSteps /\ steps' = steps + 1

NextTransform ==
  \/ \E p \in TreeNodes, c \in TreeNodes : Tick /\ AddChild(p, c) /\ UNCHANGED renderVars
  \/ \E p \in TreeNodes, c \in TreeNodes : Tick /\ RemoveChild(p, c) /\ UNCHANGED renderVars
  \/ \E n \in TreeNodes : Tick /\ DetachFromParent(n) /\ UNCHANGED renderVars
  \/ \E n \in TreeNodes, v \in PositionInputs : Tick /\ SetPosition(n, v) /\ UNCHANGED renderVars
  \/ \E n \in TreeNodes, q \in QuatInputs : Tick /\ SetRotation(n, q) /\ UNCHANGED renderVars
  \/ \E n \in TreeNodes, e \in EulerInputs : Tick /\ SetRotationEuler(n, e) /\ UNCHANGED renderVars
  \/ \E n \in TreeNodes, s \in ScaleInputs : Tick /\ SetScale(n, s) /\ UNCHANGED renderVars
  \/ \E n \in TreeNodes, f \in UniformScaleInputs : Tick /\ SetScaleUniform(n, f) /\ UNCHANGED renderVars
  \/ \E n \in TreeNodes, a \in Angles, x \in AxisInputs : Tick /\ Rotate(n, a, x) /\ UNCHANGED renderVars
  \/ \E n \in TreeNodes, P \in ParentTransformInputs : Tick /\ UpdateTransform(n, P) /\ UNCHANGED renderVars
  \/ Tick /\ SceneUpdate /\ UNCHANGED renderVars

SpecTransform == InitTree /\ [][NextTransform]_vars

\* ------------------------------------------------------------------ SpecRender
\* Number of operations a behaviour of SpecRender performs.
MaxRenderSteps == 2

RenderPositionInputs == {Vec3(1, 0, 0), Vec3(0, 0, 9)}
\* The meshes SpecRender hands out: those of the first shader other than the cube.
RenderMeshOrNull == MeshOrNull \ {CubeMesh, OtherShaderMesh}
\* One light of each type, or none.
RenderLightOrNull == {Null, 1, 2, 3}
CameraPositionInputs == {Vec3(0, 0, 3), Vec3(0, 0, 5)}
SceneOrNull == {TheScene, Null}
CameraOrNull == {TheCamera, Null}

\* The state after: construct the nodes, link them with add_child, leave the
\* last one at the origin or set_position it behind the camera, give the nodes
\* other than the root a mesh or none, construct the scene (with no light, or
\* with a directional and a point light added), the camera and the renderer
\* (bloom switched on or off).
InitScene ==
  /\ \E pm \in ParentMaps :
       LET H == BuildLinks(FreshLinks, pm, 1)
       IN parent = H.parent /\ children = H.children
  /\ \E v \in {Zero3, Vec3(0, 0, 9)} :
       /\ position = [n \in Nodes |-> IF n = TreeSize THEN v ELSE Zero3]
       /\ local = [n \in Nodes |->
                     update_local_transform(IF n = TreeSize THEN v ELSE Zero3,
                                            QuatIdentity, One3)]
  /\ rotation = [n \in Nodes |-> QuatIdentity]
  /\ scale = [n \in Nodes |-> One3]
  /\ world = [n \in Nodes |-> Identity4]
  /\ \E ms \in [TreeNodes \ {SceneRoot} -> RenderMeshOrNull] :
       mesh = [n \in Nodes |-> IF n \in DOMAIN ms THEN ms[n] ELSE Null]
  /\ light = [n \in Nodes |-> Null]
  /\ lightPos = [l \in Lights |-> Zero3]
  /\ \E ls \in {<<>>, <<1, 2>>} :
       scene = [lights |-> ls, skybox |-> FALSE, shadows_enabled |-> TRUE]
  /\ cam = NewCamera(90, 1, 2, 6)
  /\ \E bloom \in BOOLEAN : renderer = NewRenderer(bloom)
  /\ gl = NewGl
  /\ gl_trace = <<>>
  /\ engine = NewEngine
  /\ crashed = FALSE
  /\ steps = 0
  /\ lastOp = NoOp

TickRender == steps < MaxRenderSteps /\ steps' = steps + 1

NextRender ==
  \/ \E s \in SceneOrNull, c \in CameraOrNull : TickRender /\ Render(s, c)
  \/ \E n \in TreeNodes, m \in RenderMeshOrNull : TickRender /\ SetMesh(n, m)
  \/ \E n \in TreeNodes, l \in RenderLightOrNull : TickRender /\ SetLight(n, l)
  \/ \E l \in RenderLightOrNull : TickRender /\ SceneAddLight(l)
  \/ \E v \in CameraPositionInputs : TickRender /\ CameraSetPosition(v)
  \/ \E n \in TreeNodes, v \in RenderPositionInputs :
       TickRender /\ SetPosition(n, v) /\ UNCHANGED renderVars

SpecRender == InitScene /\ [][NextRender]_vars

\* ------------------------------------------------------------------ SpecLights
\* Number of operations a behaviour of SpecLights performs.
MaxLightSteps == 2

\* k lights of one type, two lights taking turns.
DirRun(k) == [i \in 1..k |-> IF i % 2 = 1 THEN 1 ELSE 4]
PointRun(k) == [i \in 1..k |-> IF i % 2 = 1 THEN 2 ELSE 5]

\* Light lists of a scene around the caps of bind_lights, filled by add_light.
SceneLightInputs ==
  {DirRun(d) \o PointRun(q) : d \in {0, MaxDirLights - 1, MaxDirLights + 1},
                               q \in {0, MaxPointLights - 1, MaxPointLights + 1}}

\* The nodes that carry a light in SpecLights.
LightNodes == {3, 4}

\* root -> (2 -> 4, 3): node 2 carries a mesh, nodes 3 and 4 may carry lights.
InitLights ==
  /\ LET H == add_child_links(add_child_links(add_child_links(FreshLinks, SceneRoot, 2),
                                              SceneRoot, 3), 2, 4)
     IN parent = H.parent /\ children = H.children
  /\ position = [n \in Nodes |-> Zero3]
  /\ local = [n \in Nodes |-> update_local_transform(Zero3, QuatIdentity, One3)]
  /\ rotation = [n \in Nodes |-> QuatIdentity]
  /\ scale = [n \in Nodes |-> One3]
  /\ world = [n \in Nodes |-> Identity4]
  /\ mesh = [n \in Nodes |-> IF n = 2 THEN 1 ELSE Null]
  /\ \E ls \in [LightNodes -> LightOrNull] :
       light = [n \in Nodes |-> IF n \in LightNodes THEN ls[n] ELSE Null]
  /\ lightPos = [l \in Lights |-> Zero3]
  /\ \E ls \in SceneLightInputs :
       scene = [lights |-> ls, skybox |-> FALSE, shadows_enabled |-> TRUE]
  /\ cam = NewCamera(90, 1, 2, 6)
  /\ renderer = NewRenderer(FALSE)
  /\ gl = NewGl
  /\ gl_trace = <<>>
  /\ engine = NewEngine
  /\ crashed = FALSE
  /\ steps = 0
  /\ lastOp = NoOp

TickLights == steps < MaxLightSteps /\ steps' = steps + 1

NextLights ==
  \/ TickLights /\ Render(TheScene, TheCamera)
  \/ \E l \in LightOrNull : TickLights /\ SceneAddLight(l)
  \/ \E n \in LightNodes, l \in LightOrNull : TickLights /\ SetLight(n, l)

SpecLights == InitLights /\ [][NextLights]_vars

\* ------------------------------------------------------------------ SpecShadows
\* Number of operations a behaviour of SpecShadows performs.
MaxShadowSteps == 3

\* root -> 2, node 2 with a mesh; a scene with no light, a point light, a
\* directional light or both.
InitShadows ==
  /\ LET H == add_child_links(FreshLinks, SceneRoot, 2)
     IN parent = H.parent /\ children = H.children
  /\ position = [n \in Nodes |-> Zero3]
  /\ local = [n \in Nodes |-> update_local_transform(Zero3, QuatIdentity, One3)]
  /\ rotation = [n \in Nodes |-> QuatIdentity]
  /\ scale = [n \in Nodes |-> One3]
  /\ world = [n \in Nodes |-> Identity4]
  /\ \E m \in {1, 3} : mesh = [n \in Nodes |-> IF n = 2 THEN m ELSE Null]
  /\ light = [n \in Nodes |-> Null]
  /\ lightPos = [l \in Lights |-> Zero3]
  /\ \E ls \in {<<>>, <<2>>, <<1>>, <<2, 4, 1>>} :
       scene = [lights |-> ls, skybox |-> FALSE, shadows_enabled |-> TRUE]
  /\ cam = NewCamera(90, 1, 2, 6)
  /\ \E bloom \in BOOLEAN : renderer = NewRenderer(bloom)
  /\ gl = NewGl
  /\ gl_trace = <<>>
  /\ engine = NewEngine
  /\ crashed = FALSE
  /\ steps = 0
  /\ lastOp = NoOp

TickShadows == steps < MaxShadowSteps /\ steps' = steps + 1

NextShadows ==
  \/ TickShadows /\ Render(TheScene, TheCamera)
  \/ \E s \in SceneOrNull, shader \in {Null, 1} :
       TickShadows /\ SetupShadows(s, shader)
  \/ \E b \in BOOLEAN : TickShadows /\ SetShadowsEnabled(b)
  \/ \E l \in {1, 2} : TickShadows /\ SceneAddLight(l)
  \/ \E s \in SceneOrNull, l \in {Null, 2} : TickShadows /\ RenderPointShadow(s, l)
  \/ \E enabled \in BOOLEAN : TickShadows /\ SetCulling(enabled)

SpecShadows == InitShadows /\ [][NextShadows]_vars

\* ------------------------------------------------------------------ SpecCamera
\* Number of operations a behaviour of SpecCamera performs.
MaxCameraSteps == 4

\* Camera placements on the z axis, so that every viewing direction and
\* every cross product of glm::lookAt lies along a coordinate axis.
EyeInputs == {Vec3(0, 0, 3), Vec3(0, 0, 5), Vec3(0, 0, -2)}
TargetInputs == {Zero3, Vec3(0, 0, 1)}
UpInputs == {Vec3(0, 1, 0), Vec3(1, 0, 0), Vec3(0, -1, 0), Vec3(0, 2, 0)}
\* <<fov, aspect, near, far>>
PerspectiveInputs == {<<90, 1, 2, 6>>, <<90, 1, 1, 3>>}
\* <<left, right, bottom, top, near, far>>
OrthoInputs == {<<-1, 1, -1, 1, 1, 3>>, <<0, 1, 0, 2, 0, 2>>}

InitCamera ==
  /\ InitNodes
  /\ InitRenderDefaults
  /\ crashed = FALSE
  /\ steps = 0
  /\ lastOp = NoOp

TickCamera == steps < MaxCameraSteps /\ steps' = steps + 1

NextCamera ==
  \/ \E v \in EyeInputs : TickCamera /\ CameraSetPosition(v)
  \/ \E v \in TargetInputs : TickCamera /\ CameraSetTarget(v)
  \/ \E v \in UpInputs : TickCamera /\ CameraSetUp(v)
  \/ \E a \in PerspectiveInputs : TickCamera /\ CameraSetPerspective(a[1], a[2], a[3], a[4])
  \/ \E a \in OrthoInputs :
       TickCamera /\ CameraSetOrthographic(a[1], a[2], a[3], a[4], a[5], a[6])
  \/ TickCamera /\ CameraGetViewMatrix
  \/ TickCamera /\ CameraGetViewProjectionMatrix

SpecCamera == InitCamera /\ [][NextCamera]_vars

\* ------------------------------------------------------------------ SpecFrustum
\* Largest coordinate of a point and largest radius of a sphere handed to a frustum.
MaxPoint == 3
MaxRadius == 4

Negate4(M) == [c \in 1..4 |-> [r \in 1..4 |-> -M[c][r]]]

\* Matrices handed to Frustum::update: the view-projection of a perspective
\* and of an orthographic camera, the identity, and their negations.
VpInputs ==
  LET persp == get_view_projection_matrix(NewCamera(90, 1, 2, 6))
      ortho == MatMul(Ortho(-1, 1, -1, 1, 1, 3), get_view_matrix(NewCamera(90, 1, 2, 6)).view)
  IN {persp, ortho, Identity4, Negate4(persp), Negate4(ortho), Negate4(Identity4)}

\* A frustum as constructed, or updated with one of the matrices.
FrustumInputs == {NewFrustum} \cup {Frustum_update(vp) : vp \in VpInputs}

PointInputs == {Vec3(x, y, z) : x \in {-MaxPoint, 0, 1}, y \in {-1, 0}, z \in {-MaxPoint, 0, 2, 4}}
\* Squares of the radii 0..MaxRadius.
RadiusSqInputs == {r * r : r \in 0..MaxRadius}

InitFrustum ==
  /\ InitNodes
  /\ InitRenderDefaults
  /\ crashed = FALSE
  /\ steps = 0
  /\ lastOp = NoOp

NextFrustum ==
  \/ \E F \in FrustumInputs, q \in PointInputs :
       FrustumContainsPoint(F, q) /\ UNCHANGED steps
  \/ \E F \in FrustumInputs, q \in PointInputs, r \in RadiusSqInputs :
       FrustumContainsSphere(F, [center |-> q, radius_sq |-> r]) /\ UNCHANGED steps

SpecFrustum == InitFrustum /\ [][NextFrustum]_vars

\* ------------------------------------------------------------------ SpecAABB
\* Largest coordinate of a corner or a point.
MaxCorner == 1

CornerInputs ==
  {Vec3(x, y, z) : x \in -MaxCorner..MaxCorner, y \in {0, MaxCorner}, z \in {-MaxCorner, 0}}

LessEq3(a, b) == \A i \in 1..3 : a[i] <= b[i]

\* The boxes AABB() and AABB(min, max) build, min not above max.
BoxInputs ==
  {NewAABB} \cup {[min |-> pr[1], max |-> pr[2]] :
                     pr \in {c \in CornerInputs \X CornerInputs : LessEq3(c[1], c[2])}}

InitAABB ==
  /\ InitNodes
  /\ InitRenderDefaults
  /\ crashed = FALSE
  /\ steps = 0
  /\ \E box \in BoxInputs : lastOp = [NoOp EXCEPT !.op = "AABB", !.xf = box]

NextAABB ==
  \/ \E point \in CornerInputs : AabbExpand(point) /\ UNCHANGED steps
  \/ \E other \in BoxInputs : AabbMerge(other) /\ UNCHANGED steps

SpecAABB == InitAABB /\ [][NextAABB]_vars

\* ------------------------------------------------------------------ SpecLOD
\* Largest squared distance asked of get_mesh.
MaxDistanceSq == 10

LodMeshInputs == {Null, 1, 2, 3}
LodDistanceInputs == {-2, 1, 3}

\* LOD::LOD(): no level.
InitLOD ==
  /\ InitNodes
  /\ InitRenderDefaults
  /\ crashed = FALSE
  /\ steps = 0
  /\ lastOp = [NoOp EXCEPT !.op = "LOD", !.self = <<>>]

NextLOD ==
  \/ \E m \in LodMeshInputs, d \in LodDistanceInputs : LodAddLevel(m, d) /\ UNCHANGED steps
  \/ \E d \in 0..MaxDistanceSq : LodGetMesh(d) /\ UNCHANGED steps
  \/ LodClear /\ UNCHANGED steps

SpecLOD == InitLOD /\ [][NextLOD]_vars

\* ------------------------------------------------------------------ SpecEngine
\* Iterations of the loop of Engine::run, and key events queued between two
\* calls of glfwPollEvents.
MaxFrames == 3
MaxEvents == 2

\* Engine::Engine: no key held, no event queued.
InitEngine ==
  /\ InitNodes
  /\ InitRenderDefaults
  /\ crashed = FALSE
  /\ steps = 0
  /\ lastOp = NoOp

NextEngine ==
  \/ engine.frames < MaxFrames /\ EngineRun /\ UNCHANGED steps
  \/ \E key \in KeyInputs, action \in KeyActions :
       /\ Len(engine.events) < MaxEvents
       /\ WindowKeyEvent(key, action)
       /\ UNCHANGED steps

SpecEngine == InitEngine /\ [][NextEngine]_vars

\* ------------------------------------------------------------------ SpecQueue
\* Number of operations a behaviour of SpecQueue performs.
MaxQueueSteps == 2

\* Places of a node relative to its parent: two in front of the camera, one
\* behind it, and the way back from behind it.
QueuePositions == {Zero3, Vec3(1, 0, 0), Vec3(0, 0, 9), Vec3(0, 0, -9)}
QueueMeshOrNull == {Null, 1, 3, OtherShaderMesh}
\* The light of the last node: none, a directional light or a point light.
QueueLightOrNull == {Null, 1, 2}

\* The state after: construct the nodes, link them with add_child, set_position
\* the nodes other than the root and give them a mesh or none, attach a light
\* to the last node or none, construct the scene, the camera and the renderer.
\* No Scene::update has run yet.
InitQueue ==
  /\ \E pm \in ParentMaps :
       LET H == BuildLinks(FreshLinks, pm, 1)
       IN parent = H.parent /\ children = H.children
  /\ \E vs \in [TreeNodes \ {SceneRoot} -> QueuePositions] :
       /\ position = [n \in Nodes |-> IF n \in DOMAIN vs THEN vs[n] ELSE Zero3]
       /\ local = [n \in Nodes |->
                     update_local_transform(IF n \in DOMAIN vs THEN vs[n] ELSE Zero3,
                                            QuatIdentity, One3)]
  /\ rotation = [n \in Nodes |-> QuatIdentity]
  /\ scale = [n \in Nodes |-> One3]
  /\ world = [n \in Nodes |-> Identity4]
  /\ \E ms \in [TreeNodes \ {SceneRoot} -> QueueMeshOrNull] :
       mesh = [n \in Nodes |-> IF n \in DOMAIN ms THEN ms[n] ELSE Null]
  /\ \E l \in QueueLightOrNull : light = [n \in Nodes |-> IF n = TreeSize THEN l ELSE Null]
  /\ lightPos = [l \in Lights |-> Zero3]
  /\ scene = [lights |-> <<>>, skybox |-> FALSE, shadows_enabled |-> TRUE]
  /\ cam = NewCamera(90, 1, 2, 6)
  /\ renderer = NewRenderer(FALSE)
  /\ gl = NewGl
  /\ gl_trace = <<>>
  /\ engine = NewEngine
  /\ crashed = FALSE
  /\ steps = 0
  /\ lastOp = NoOp

TickQueue == steps < MaxQueueSteps /\ steps' = steps + 1

NextQueue ==
  \/ TickQueue /\ Render(TheScene, TheCamera)
  \/ \E n \in TreeNodes \ {SceneRoot}, v \in QueuePositions :
       TickQueue /\ SetPosition(n, v) /\ UNCHANGED renderVars
  \/ TickQueue /\ SceneUpdate /\ UNCHANGED renderVars

SpecQueue == InitQueue /\ [][NextQueue]_vars

\* ------------------------------------------------------------------ SpecCull
\* Number of operations a behaviour of SpecCull performs.
MaxCullSteps == 3

\* The node that carries the cube.
CubeNode == 2

\* Places of the cube, in half units: behind the camera, at the origin,
\* beyond the far plane, far off the axis, and between those.
CullPositions ==
  {Vec3(x, 0, z) : x \in {-200, 0, 200}, z \in {-300, -2, 0, 20}}

\* Where the camera stands, in half units.
CullCameraPosition == Vec3(0, 0, 10)

\* The state after: construct a scene, a node with a cube mesh, set_position
\* the node, add_child it to the root; construct a perspective camera (90
\* degrees, aspect 1, near 4, far 12 half units) and set_position it to
\* (0, 0, 10) with the target at the origin; construct the renderer.
InitCull ==
  /\ LET H == add_child_links(FreshLinks, SceneRoot, CubeNode)
     IN parent = H.parent /\ children = H.children
  /\ \E v \in CullPositions :
       /\ position = [n \in Nodes |-> IF n = CubeNode THEN v ELSE Zero3]
       /\ local = [n \in Nodes |->
                     update_local_transform(IF n = CubeNode THEN v ELSE Zero3,
                                            QuatIdentity, One3)]
       /\ world = [n \in Nodes |->
                     IF n = CubeNode THEN update_local_transform(v, QuatIdentity, One3)
                     ELSE Identity4]
  /\ rotation = [n \in Nodes |-> QuatIdentity]
  /\ scale = [n \in Nodes |-> One3]
  /\ mesh = [n \in Nodes |-> IF n = CubeNode THEN CubeMesh ELSE Null]
  /\ light = [n \in Nodes |-> Null]
  /\ lightPos = [l \in Lights |-> Zero3]
  /\ scene = [lights |-> <<>>, skybox |-> FALSE, shadows_enabled |-> TRUE]
  /\ cam = [NewCamera(90, 1, 4, 12) EXCEPT !.position = CullCameraPosition]
  /\ \E bloom \in BOOLEAN : renderer = NewRenderer(bloom)
  /\ gl = NewGl
  /\ gl_trace = <<>>
  /\ engine = NewEngine
  /\ crashed = FALSE
  /\ steps = 0
  /\ lastOp = NoOp

TickCull == steps < MaxCullSteps /\ steps' = steps + 1

NextCull ==
  \/ TickCull /\ Render(TheScene, TheCamera)
  \/ \E v \in CullPositions : TickCull /\ SetPosition(CubeNode, v) /\ UNCHANGED renderVars
  \/ TickCull /\ SceneUpdate /\ UNCHANGED renderVars

SpecCull == InitCull /\ [][NextCull]_vars

\* ------------------------------------------------------------------ SpecSort
\* Longest queue handed to sort_render_queue.
MaxQueue == 3
\* Largest (squared) camera distance of an item.
MaxDistance == 3

\* The render items: any layer, a mesh with a shader and a material, with
\* another material or without a shader, any distance, transparent or not.
ItemInputs ==
  {[mesh |-> m, transform |-> Identity4, distance_sq |-> d, is_transparent |-> t, layer |-> l] :
     m \in {1, 3, 5}, d \in 1..MaxDistance, t \in BOOLEAN,
     l \in {LayerOpaque, LayerTransparent}}

QueueInputs == UNION {[1..k -> ItemInputs] : k \in 0..MaxQueue}

\* A renderer whose queue holds any items, in any order.
InitSort ==
  /\ InitNodes
  /\ mesh = [n \in Nodes |-> Null]
  /\ light = [n \in Nodes |-> Null]
  /\ lightPos = [l \in Lights |-> Zero3]
  /\ scene = [lights |-> <<>>, skybox |-> FALSE, shadows_enabled |-> TRUE]
  /\ cam = NewCamera(90, 1, 2, 6)
  /\ \E q \in QueueInputs : renderer = [NewRenderer(FALSE) EXCEPT !.render_queue = q]
  /\ gl = NewGl
  /\ gl_trace = <<>>
  /\ engine = NewEngine
  /\ crashed = FALSE
  /\ steps = 0
  /\ lastOp = NoOp

NextSort == SortRenderQueue /\ UNCHANGED steps

SpecSort == InitSort /\ [][NextSort]_vars

\* ------------------------------------------------------------------ properties
Origin(M) == Vec3(M[4][1], M[4][2], M[4][3])

\* C1: after parent2.add_child(node), where node was a child of parent1 and
\* the three nodes are distinct, parent1's child list no longer contains node,
\* parent2's child list contains node exactly once, as its last element, and
\* node's parent is parent2.
C1_Reparent ==
  (/\ lastOp.op = "add_child"
   /\ lastOp.arg # Null
   /\ lastOp.old_parent # Null
   /\ Cardinality({lastOp.self, lastOp.arg, lastOp.old_parent}) = 3)
  => (/\ ~Contains(children[lastOp.old_parent], lastOp.arg)
      /\ Count(children[lastOp.self], lastOp.arg) = 1
      /\ children[lastOp.self][Len(children[lastOp.self])] = lastOp.arg
      /\ parent[lastOp.arg] = lastOp.self)

C1_Witness ==
  /\ lastOp.op = "add_child"
  /\ lastOp.arg # Null
  /\ lastOp.old_parent # Null
  /\ Cardinality({lastOp.self, lastOp.arg, lastOp.old_parent}) = 3
  /\ Len(children[lastOp.self]) >= 2
  /\ children[lastOp.old_parent] # <<>>
  /\ ~crashed

\* C2: every node is in at most one child list, at most once, and node n is in
\* p's child list exactly when n's parent is p.
C2_OneParent ==
  /\ \A n \in Nodes : \A p, q \in Nodes :
       (Contains(children[p], n) /\ Contains(children[q], n)) => p = q
  /\ \A n \in Nodes : \A p \in Nodes : Count(children[p], n) <= 1
  /\ \A n \in Nodes : \A p \in Nodes : Contains(children[p], n) <=> parent[n] = p

C2_Witness ==
  /\ lastOp.op = "detach_from_parent"
  /\ lastOp.old_parent # Null
  /\ children[lastOp.old_parent] # <<>>
  /\ \E p \in Nodes : Len(children[p]) >= 1 /\ parent[p] # Null

\* The operation recorded in lastOp' did not apply to the state it was called in.
C3_NotApplicable ==
  \/ /\ lastOp'.op = "remove_child"
     /\ (lastOp'.arg = Null \/ ~Contains(children[lastOp'.self], lastOp'.arg))
  \/ /\ lastOp'.op = "detach_from_parent"
     /\ parent[lastOp'.self] = Null
  \/ /\ lastOp'.op = "add_child"
     /\ lastOp'.arg = Null

\* C3: remove_child of a node that is not in the receiver's child list (also
\* when it is a child of another node), detach_from_parent on a parentless node,
\* add_child(null) and remove_child(null) change no child list and no parent
\* reference, and the process keeps running.
C3_NoOps ==
  [][C3_NotApplicable => (parent' = parent /\ children' = children /\ ~crashed')]_vars

C3_Witness ==
  /\ lastOp.op = "remove_child"
  /\ lastOp.arg # Null
  /\ lastOp.old_parent # Null
  /\ lastOp.old_parent # lastOp.self
  /\ parent[lastOp.arg] = lastOp.old_parent

\* The call of update_transform the last operation made: its receiver and its argument.
PropagatedFrom ==
  CASE lastOp.op = "update_transform" -> <<lastOp.self, lastOp.xf>>
    [] lastOp.op = "scene_update" -> <<SceneRoot, Identity4>>
    [] lastOp.op = "add_child" /\ lastOp.arg # Null /\ ~crashed -> <<lastOp.arg, world[lastOp.self]>>
    [] OTHER -> <<Null, Identity4>>

\* C4: after n.update_transform(P) returns, n's world transform is P * n's local
\* transform and every descendant's world transform is its parent's world
\* transform * its own local transform; Scene::update does this from the root
\* with the identity.
C4_Propagated ==
  LET n == PropagatedFrom[1]
      P == PropagatedFrom[2]
  IN n # Null =>
       /\ world[n] = MatMul(P, local[n])
       /\ \A d \in Descendants(children, n) : world[d] = MatMul(world[parent[d]], local[d])

C4_Witness ==
  /\ lastOp.op = "update_transform"
  /\ lastOp.xf # Identity4
  /\ \E c \in Nodes, g \in Nodes :
       /\ parent[c] = lastOp.self /\ parent[g] = c
       /\ local[lastOp.self] # Identity4 /\ local[c] # Identity4 /\ local[g] # Identity4
       /\ world[g] = MatMul(lastOp.xf, MatMul(local[lastOp.self], MatMul(local[c], local[g])))

\* The nodes h, its only child, that node's only child, ... up to the first
\* node that does not have exactly one child.
RECURSIVE OnlyChildPath(_, _)
OnlyChildPath(path, n) ==
  IF Len(children[n]) = 1 /\ ~Contains(path, children[n][1]) /\ children[n][1] # n
  THEN OnlyChildPath(Append(path, n), children[n][1])
  ELSE Append(path, n)

RECURSIVE SumPositions(_, _)
SumPositions(path, k) ==
  IF k = 0 THEN Zero3
  ELSE LET r == SumPositions(path, k - 1)
           v == position[path[k]]
       IN Vec3(r[1] + v[1], r[2] + v[2], r[3] + v[3])

\* The first k nodes of the path have identity rotation and scale and
\* positions along one common axis.
TranslatedAlongAxis(path, k) ==
  /\ \A i \in 1..k : rotation[path[i]] = QuatIdentity /\ scale[path[i]] = One3
  /\ \E a \in 1..3 : \A i \in 1..k : \A b \in (1..3) \ {a} : position[path[i]][b] = 0

\* C5: after update_transform(identity) on the head of a chain of nodes with
\* identity rotation and scale and positions along one axis, the world-space
\* origin of the last node is the sum of the positions.
C5_ChainSum ==
  (lastOp.op \in {"update_transform", "scene_update"} /\ lastOp.xf = Identity4)
  => LET path == OnlyChildPath(<<>>, lastOp.self)
     IN \A k \in 1..Len(path) :
          TranslatedAlongAxis(path, k) => Origin(world[path[k]]) = SumPositions(path, k)

C5_Witness ==
  /\ lastOp.op = "update_transform"
  /\ lastOp.xf = Identity4
  /\ LET path == OnlyChildPath(<<>>, lastOp.self)
     IN /\ Len(path) = 3
        /\ TranslatedAlongAxis(path, 3)
        /\ \A i \in 1..3 : position[path[i]] = Vec3(1, 0, 0)
        /\ Origin(world[path[3]]) = Vec3(3, 0, 0)

\* C6: for a parent with uniform scale s, identity rotation and position 0 and a
\* child at local position (1,0,0), after parent.update_transform(identity) the
\* child's world position is (s,0,0).
C6_ScalePropagates ==
  (lastOp.op \in {"update_transform", "scene_update"} /\ lastOp.xf = Identity4)
  => LET p == lastOp.self
     IN (/\ scale[p][1] = scale[p][2] /\ scale[p][2] = scale[p][3]
         /\ rotation[p] = QuatIdentity
         /\ position[p] = Zero3)
        => \A i \in 1..Len(children[p]) :
             position[children[p][i]] = Vec3(1, 0, 0)
             => Origin(world[children[p][i]]) = Vec3(scale[p][1], 0, 0)

C6_Witness ==
  /\ lastOp.op = "update_transform"
  /\ lastOp.xf = Identity4
  /\ scale[lastOp.self] \in {Vec3(2, 2, 2), Vec3(3, 3, 3)}
  /\ rotation[lastOp.self] = QuatIdentity
  /\ position[lastOp.self] = Zero3
  /\ \E c \in Nodes :
       /\ parent[c] = lastOp.self
       /\ position[c] = Vec3(1, 0, 0)
       /\ Origin(world[c]) = Vec3(scale[lastOp.self][1], 0, 0)

\* C7: set_position, set_rotation, set_scale and rotate change the receiver's
\* position, rotation or scale and recompute its local transform as
\* translate * rotate * scale; they change no world transform, no link and no
\* transform of another node.
C7_SettersLocal ==
  [][lastOp'.op \in {"set_position", "set_rotation", "set_scale", "rotate"} =>
       LET n == lastOp'.self
       IN /\ world' = world
          /\ parent' = parent
          /\ children' = children
          /\ \A m \in Nodes \ {n} :
               /\ position'[m] = position[m]
               /\ rotation'[m] = rotation[m]
               /\ scale'[m] = scale[m]
               /\ local'[m] = local[m]
          /\ lastOp'.op = "set_position" => (rotation' = rotation /\ scale' = scale)
          /\ lastOp'.op \in {"set_rotation", "rotate"} => (position' = position /\ scale' = scale)
          /\ lastOp'.op = "set_scale" => (position' = position /\ rotation' = rotation)
          /\ local'[n] = MatMul(Translate(position'[n]),
                                MatMul(Mat4Cast(rotation'[n]), ScaleMat(scale'[n])))
    ]_vars

C7_Witness ==
  /\ lastOp.op = "set_position"
  /\ children[lastOp.self] # <<>>
  /\ world[lastOp.self] # Identity4
  /\ local[lastOp.self] # Identity4
  /\ world[lastOp.self] # local[lastOp.self]


\* The step is a call of Renderer::render with a null scene or a null camera.
NullRenderStep == lastOp'.op = "render" /\ (lastOp'.self = Null \/ lastOp'.arg = Null)

\* The state is the one a call render(scene, camera) with a scene and a camera left.
AfterFrame(op) == op.op = "render" /\ op.self # Null /\ op.arg # Null

DrawEvents(trace) == {i \in 1..Len(trace) : trace[i].ev = "draw"}

RECURSIVE SumTriangles(_)
SumTriangles(ms) ==
  IF ms = <<>> THEN 0 ELSE (MeshTable[Head(ms)].index_count \div 3) + SumTriangles(Tail(ms))

\* The meshes drawn by a trace, in order.
DrawnMeshes(trace) == SelectSeq(trace, LAMBDA e : e.ev = "draw")

\* C8: render(scene, camera) with a null scene or a null camera issues no draw
\* call and leaves the draw-call counter, the triangle counter, the render
\* queue, the last-bound-material slot and the collected light lists as they were.
C8_NullRenderNoOp ==
  [][NullRenderStep =>
       /\ DrawEvents(gl_trace') = {}
       /\ renderer'.draw_calls = renderer.draw_calls
       /\ renderer'.triangles_count = renderer.triangles_count
       /\ renderer'.render_queue = renderer.render_queue
       /\ renderer'.last_bound_material = renderer.last_bound_material
       /\ renderer'.directional_lights = renderer.directional_lights
       /\ renderer'.point_lights = renderer.point_lights
       /\ renderer'.spot_lights = renderer.spot_lights]_vars

\* A null render that follows a frame which drew meshes, bound a material and
\* collected lights.
C8_Witness ==
  /\ lastOp.op = "render"
  /\ lastOp.self # Null /\ lastOp.arg = Null
  /\ renderer.draw_calls = 2
  /\ renderer.triangles_count > 0
  /\ Len(renderer.render_queue) = 2
  /\ renderer.last_bound_material # Null
  /\ renderer.directional_lights # <<>>
  /\ renderer.point_lights # <<>>
  /\ gl_trace = <<>>

\* C9: a render with a scene and a camera starts from clean per-frame state:
\* the counters after the frame count the draws of that frame only (a frame
\* that directly follows a frame of the same scene reports the same
\* counters), the queue holds the items of that frame only, and the first
\* draw of the frame is preceded by the binding of its material, whatever
\* material the previous frame bound last.
C9_FrameStartsClean ==
  [][AfterFrame(lastOp') =>
       LET drawn == DrawnMeshes(gl_trace')
           draws == DrawEvents(gl_trace')
       IN /\ renderer'.draw_calls = Len(drawn)
          /\ renderer'.triangles_count = SumTriangles([i \in 1..Len(drawn) |-> drawn[i].x])
          /\ Len(renderer'.render_queue) <= Cardinality({n \in Nodes : mesh[n] # Null})
          /\ \A i \in 1..Len(renderer'.render_queue) :
               \E n \in Nodes : mesh[n] = renderer'.render_queue[i].mesh
          /\ draws # {} =>
               LET first == CHOOSE i \in draws : \A j \in draws : i <= j
                   m == gl_trace'[first].x
                   material == IF MeshTable[m].material # Null
                               THEN MeshTable[m].material ELSE DefaultMaterial
               IN \E k \in 1..(first - 1) :
                    /\ gl_trace'[k].ev = "bind_material"
                    /\ gl_trace'[k].x = material
          /\ AfterFrame(lastOp) =>
               /\ renderer'.draw_calls = renderer.draw_calls
               /\ renderer'.triangles_count = renderer.triangles_count]_vars

\* The second of two frames of one scene; each drew one mesh, so the material
\* the first frame bound last is the material of the first draw of the second,
\* and the second frame bound it again.
C9_Witness ==
  /\ AfterFrame(lastOp)
  /\ lastOp.frames = 2
  /\ renderer.draw_calls = 1
  /\ Len(renderer.render_queue) = 1
  /\ renderer.last_bound_material = 1
  /\ \E k \in 1..Len(gl_trace) : gl_trace[k].ev = "bind_material" /\ gl_trace[k].x = 1

\* The transform Renderer::render accumulates down to node n, from the
\* parent links.
RECURSIVE PathTransform(_)
PathTransform(n) ==
  IF parent[n] = Null THEN local[n] ELSE MatMul(PathTransform(parent[n]), local[n])

RECURSIVE RootOf(_)
RootOf(n) == IF parent[n] = Null THEN n ELSE RootOf(parent[n])

\* The mesh-bearing nodes of the scene whose mesh has a shader and whose
\* bounding sphere, moved to the node's place, passes the frustum test.
VisibleMeshNodes ==
  {n \in Nodes :
     /\ RootOf(n) = SceneRoot
     /\ mesh[n] # Null
     /\ MeshTable[mesh[n]].shader # Null
     /\ contains_sphere(Frustum_update(get_view_projection_matrix(cam)),
                        BoundingSphere_transform(
                          [center |-> MeshTable[mesh[n]].center,
                           radius_sq |-> MeshTable[mesh[n]].radius_sq],
                          PathTransform(n)))}

RECURSIVE SumOver(_)
SumOver(S) ==
  IF S = {} THEN 0
  ELSE LET n == CHOOSE x \in S : TRUE
       IN (MeshTable[mesh[n]].index_count \div 3) + SumOver(S \ {n})

\* C10: after render(scene, camera) the draw-call counter is the number of
\* mesh-bearing nodes of the scene that pass the frustum test and whose mesh
\* has a shader, whatever their materials; the triangle counter is the sum of
\* index_count / 3 over them; a scene without such a node gives 0 and 0.
C10_Counters ==
  AfterFrame(lastOp) =>
    /\ renderer.draw_calls = Cardinality(VisibleMeshNodes)
    /\ renderer.triangles_count = SumOver(VisibleMeshNodes)

\* A frame of three mesh-bearing nodes: two are drawn, their meshes differ
\* and share a material, one has an index count that is no multiple of three;
\* the third node is culled.
C10_Witness ==
  /\ AfterFrame(lastOp)
  /\ renderer.draw_calls = 2
  /\ renderer.triangles_count = 13
  /\ \E a, b, c \in Nodes :
       /\ a # b
       /\ {a, b} = VisibleMeshNodes
       /\ {mesh[a], mesh[b]} = {1, 2}
       /\ RootOf(c) = SceneRoot /\ mesh[c] # Null /\ MeshTable[mesh[c]].shader # Null
       /\ c \notin VisibleMeshNodes


\* The frame just rendered is one of the scene with the cube at world position
\* v, seen by the camera at (0, 0, 10).
CubeFrameAt(v) ==
  /\ AfterFrame(lastOp)
  /\ cam.position = CullCameraPosition /\ cam.target = Zero3
  /\ mesh[CubeNode] = CubeMesh /\ parent[CubeNode] = SceneRoot
  /\ Origin4(PathTransform(CubeNode)) = v

\* C11: with a perspective camera at (0,0,5) looking at the origin, a cube
\* node behind the camera at (0,0,10) gives zero draw calls, one at the origin
\* gives at least one draw call, one beyond the far plane at z = -150 gives
\* zero, and one far off the axis at x = 100 gives zero.  (Lengths are in half
\* units here, so the cube has integer corners.)
C11_FrustumCulling ==
  /\ CubeFrameAt(Vec3(0, 0, 20)) => renderer.draw_calls = 0
  /\ CubeFrameAt(Zero3) => renderer.draw_calls >= 1
  /\ CubeFrameAt(Vec3(0, 0, -300)) => renderer.draw_calls = 0
  /\ CubeFrameAt(Vec3(200, 0, 0)) => renderer.draw_calls = 0


\* C12: the comparison of sort_render_queue is irreflexive, asymmetric and
\* transitive over all render items, also over items that share layer, shader
\* and material and differ in their transparency flag.
C12_StrictOrder ==
  LET q == renderer.render_queue
      I == 1..Len(q)
  IN /\ \A i \in I : ~RenderItemLess(q[i], q[i])
     /\ \A i, j \in I : RenderItemLess(q[i], q[j]) => ~RenderItemLess(q[j], q[i])
     /\ \A i, j, k \in I :
          RenderItemLess(q[i], q[j]) /\ RenderItemLess(q[j], q[k]) => RenderItemLess(q[i], q[k])


\* The queue build_render_queue_culled hands to sort_render_queue in a frame
\* of the current scene.
BuiltQueue ==
  build_render_queue_culled(<< <<SceneRoot, Identity4>> >>, cam, <<>>,
                            Frustum_update(get_view_projection_matrix(cam)))

\* b holds the items of a, each as often as a does.
IsPermutation(a, b) ==
  /\ Len(a) = Len(b)
  /\ \A i \in 1..Len(a) :
       Cardinality({j \in 1..Len(a) : a[j] = a[i]}) = Cardinality({j \in 1..Len(b) : b[j] = a[i]})

SameLayer(x, y) == x.layer = y.layer
SameShader(x, y) == SameLayer(x, y) /\ ShaderAddr(x.mesh) = ShaderAddr(y.mesh)
SameMaterial(x, y) == SameShader(x, y) /\ MaterialAddr(x.mesh) = MaterialAddr(y.mesh)

\* Layers never decrease along q, the items of one shader are contiguous
\* within a layer and the items of one material within a shader group.
Grouped(q) ==
  /\ \A i, j \in 1..Len(q) : i < j => q[i].layer <= q[j].layer
  /\ \A i, j, k \in 1..Len(q) :
       i < j /\ j < k /\ SameShader(q[i], q[k]) => SameShader(q[i], q[j])
  /\ \A i, j, k \in 1..Len(q) :
       i < j /\ j < k /\ SameMaterial(q[i], q[k]) => SameMaterial(q[i], q[j])

C14_DistanceOrder ==
  lastOp.op = "sort_render_queue" =>
    LET q == renderer.render_queue
    IN \A i, j \in 1..Len(q) :
         i < j /\ SameMaterial(q[i], q[j]) =>
           /\ (~q[i].is_transparent /\ ~q[j].is_transparent
                 => q[i].distance_sq <= q[j].distance_sq)
           /\ (q[i].is_transparent /\ q[j].is_transparent
                 => q[i].distance_sq >= q[j].distance_sq)


\* The material render_mesh binds for mesh m.
MaterialOf(m) ==
  IF MeshTable[m].material # Null THEN MeshTable[m].material ELSE DefaultMaterial

\* The draw before draw d of a trace, 0 when d is the first.
PrevDraw(trace, d) ==
  LET before == {i \in DrawEvents(trace) : i < d}
  IN IF before = {} THEN 0 ELSE CHOOSE i \in before : \A j \in before : j <= i

\* The Material::bind calls issued for draw d.
BindsFor(trace, d) ==
  {k \in (PrevDraw(trace, d) + 1)..(d - 1) : trace[k].ev = "bind_material"}

\* Draw d is the first of the frame or draws another material than the draw before.
MaterialChanges(trace, d) ==
  \/ PrevDraw(trace, d) = 0
  \/ MaterialOf(trace[PrevDraw(trace, d)].x) # MaterialOf(trace[d].x)

\* C15: within a frame Material::bind is called for a draw exactly when the
\* material of its mesh (the default material when the mesh has none) is
\* another one than the material of the previous draw of the frame; it is
\* called once, with that material, and the binds of a frame are as many as
\* the material changes along the draws, the first draw included.
C15_MaterialBinds ==
  AfterFrame(lastOp) =>
    /\ \A d \in DrawEvents(gl_trace) :
         /\ BindsFor(gl_trace, d) # {} <=> MaterialChanges(gl_trace, d)
         /\ Cardinality(BindsFor(gl_trace, d)) <= 1
         /\ \A k \in BindsFor(gl_trace, d) : gl_trace[k].x = MaterialOf(gl_trace[d].x)
    /\ Cardinality({k \in 1..Len(gl_trace) : gl_trace[k].ev = "bind_material"})
         = Cardinality({d \in DrawEvents(gl_trace) : MaterialChanges(gl_trace, d)})

\* A frame of three draws, two of one material in a row and one of another:
\* two binds.
C15_Witness ==
  /\ AfterFrame(lastOp)
  /\ Cardinality(DrawEvents(gl_trace)) = 3
  /\ Cardinality({k \in 1..Len(gl_trace) : gl_trace[k].ev = "bind_material"}) = 2
  /\ \E d \in DrawEvents(gl_trace) :
       ~MaterialChanges(gl_trace, d) /\ BindsFor(gl_trace, d) = {}
  /\ \E d \in DrawEvents(gl_trace) :
       PrevDraw(gl_trace, d) # 0 /\ BindsFor(gl_trace, d) # {}


\* The nodes under the nodes of work, parents before children and siblings
\* in the order of the children lists.
RECURSIVE PreOrder(_)
PreOrder(work) ==
  IF work = <<>> THEN <<>>
  ELSE <<Head(work)>> \o PreOrder(children[Head(work)] \o Tail(work))

\* The lights of one type in collection order: those of the scene's list as
\* inserted, then those attached to nodes in pre-order.
Collected(type) ==
  LET order == PreOrder(<<SceneRoot>>)
      attached == [i \in 1..Len(order) |-> light[order[i]]]
  IN SelectSeq(scene.lights, LAMBDA l : LightTable[l] = type)
     \o SelectSeq(attached, LAMBDA l : l # Null /\ LightTable[l] = type)

\* C16: every draw uploads min(collected directional lights, 4) directional
\* and min(collected point lights, 16) point lights, namely the first ones
\* in collection order (the scene's list in insertion order, then the lights
\* attached to nodes in pre-order); the others are dropped without error.
C16_LightCaps ==
  AfterFrame(lastOp) =>
    /\ ~crashed
    /\ \A d \in DrawEvents(gl_trace) :
         \E k \in (PrevDraw(gl_trace, d) + 1)..(d - 1) :
           LET e == gl_trace[k]
               dir == Collected("Directional")
               point == Collected("Point")
           IN /\ e.ev = "bind_lights"
              /\ e.y.num = Min(Len(dir), 4)
              /\ e.y.slots = SubSeq(dir, 1, e.y.num)
              /\ e.z.num = Min(Len(point), 16)
              /\ e.z.slots = SubSeq(point, 1, e.z.num)

\* A draw with five directional lights collected, the last two attached to
\* nodes, and seventeen point lights: four and sixteen are uploaded, the
\* fourth directional light being the one of the node first in pre-order.
C16_Witness ==
  /\ AfterFrame(lastOp)
  /\ Len(Collected("Directional")) = MaxDirLights + 1
  /\ Len(Collected("Point")) = MaxPointLights + 1
  /\ light[4] = 4 /\ light[3] = 1
  /\ \E k \in 1..Len(gl_trace) :
       /\ gl_trace[k].ev = "bind_lights"
       /\ gl_trace[k].y.num = MaxDirLights
       /\ gl_trace[k].y.slots[MaxDirLights] = 4
       /\ gl_trace[k].z.num = MaxPointLights
  /\ DrawEvents(gl_trace) # {}


\* The events that bind a framebuffer for drawing; x is the framebuffer.
TargetEvents == {"bind_framebuffer", "bright_pass", "blur_pass", "composite"}

\* The framebuffer bound when event k of a trace is issued.
TargetAt(trace, k) ==
  LET binds == {j \in 1..(k - 1) : trace[j].ev \in TargetEvents}
  IN IF binds = {} THEN FbDefault
     ELSE trace[CHOOSE j \in binds : \A i \in binds : i <= j].x

EventsOf(trace, names) == {k \in 1..Len(trace) : trace[k].ev \in names}

\* C17: in every render() the passes run in a fixed order: the mesh draws go
\* to the HDR offscreen framebuffer and end before any bloom extraction or
\* blur pass, the bloom passes end before the tone-map composite, the
\* composite is the last pass and goes to the default framebuffer, and the
\* bloom extraction and blur passes run exactly when bloom is enabled.
C17_PassOrder ==
  AfterFrame(lastOp) =>
    LET draws == DrawEvents(gl_trace)
        bright == EventsOf(gl_trace, {"bright_pass"})
        blurs == EventsOf(gl_trace, {"blur_pass"})
        composites == EventsOf(gl_trace, {"composite"})
    IN /\ \A d \in draws : TargetAt(gl_trace, d) = FbHdr
       /\ \A d \in draws, b \in bright \cup blurs : d < b
       /\ \A b \in bright, c \in blurs : b < c
       /\ \A b \in bright \cup blurs, c \in composites : b < c
       /\ composites = {Len(gl_trace)}
       /\ gl_trace[Len(gl_trace)].x = FbDefault
       /\ renderer.bloom_enabled =>
            Cardinality(bright) = 1 /\ Cardinality(blurs) = BlurPasses
       /\ ~renderer.bloom_enabled => bright \cup blurs = {}

\* A frame with bloom enabled that drew two meshes, extracted and blurred
\* the bright parts and composited.
C17_Witness ==
  /\ AfterFrame(lastOp)
  /\ renderer.bloom_enabled
  /\ Cardinality(DrawEvents(gl_trace)) = 2
  /\ EventsOf(gl_trace, {"bright_pass"}) # {}
  /\ EventsOf(gl_trace, {"blur_pass"}) # {}
  /\ gl_trace[Len(gl_trace)].ev = "composite"


\* C18: a render(scene, camera) of a scene with shadows enabled and at least
\* one directional light runs a shadow depth pass in that frame and binds its
\* depth texture and light-space matrix before the first mesh draw of the
\* frame; with shadows disabled or no directional light no shadow pass runs.
C18_ShadowPass ==
  AfterFrame(lastOp) =>
    LET draws == DrawEvents(gl_trace)
        passes == EventsOf(gl_trace, {"shadow_pass"})
        bound == EventsOf(gl_trace, {"bind_shadow_map"})
    IN IF scene.shadows_enabled /\ Collected("Directional") # <<>>
       THEN /\ passes # {}
            /\ \A d \in draws : \E q \in passes, b \in bound : q < b /\ b < d
       ELSE passes = {}


\* C19: after any sequence of set_position, set_target, set_up,
\* set_perspective, set_orthographic and getter calls, get_view_matrix()
\* returns look-at(position, target, up) of the current values, a view cached
\* with the dirty flag clear is that matrix too, and
\* get_view_projection_matrix() returns the projection matrix times the view
\* matrix, in perspective and in orthographic mode.
C19_ViewFresh ==
  LET view == LookAt(cam.position, cam.target, cam.up)
  IN /\ ~cam.view_dirty => cam.view = view
     /\ lastOp.op = "get_view_matrix" => lastOp.xf = view
     /\ lastOp.op = "get_view_projection_matrix" =>
          lastOp.xf = MatMul(cam.projection, view)

\* get_view_projection_matrix() in orthographic mode after the target and
\* the up vector were changed.
C19_Witness ==
  /\ lastOp.op = "get_view_projection_matrix"
  /\ cam.mode = "Orthographic"
  /\ cam.projection = Ortho(0, 1, 0, 2, 0, 2)
  /\ cam.target = Vec3(0, 0, 1)
  /\ cam.up = Vec3(1, 0, 0)
  /\ lastOp.xf # MatMul(cam.projection, LookAt(Vec3(0, 0, 3), Zero3, Vec3(0, 1, 0)))


\* The distance of point to the normalised plane is at least -radius.
NotBelow(plane, point, radius_sq) ==
  LET d == distance_to_point(plane, point)
  IN d >= 0 \/ d * d <= radius_sq * plane.length_sq

\* C20: for any six planes contains_point(p) is true exactly when
\* distance_to_point(p) >= 0 for every plane and contains_sphere(c, r)
\* exactly when distance_to_point(c) >= -r for every plane; so a sphere
\* whose centre passes contains_point passes contains_sphere for every
\* radius r >= 0, and a sphere that passes contains_sphere passes it for
\* every larger radius.
C20_Containment ==
  /\ lastOp.op = "contains_point" =>
       /\ lastOp.xf <=> \A i \in 1..6 : distance_to_point(lastOp.self[i], lastOp.arg) >= 0
       /\ lastOp.xf =>
            \A r \in RadiusSqInputs :
              contains_sphere(lastOp.self, [center |-> lastOp.arg, radius_sq |-> r])
  /\ lastOp.op = "contains_sphere" =>
       /\ lastOp.xf <=>
            \A i \in 1..6 : NotBelow(lastOp.self[i], lastOp.arg.center, lastOp.arg.radius_sq)
       /\ contains_point(lastOp.self, lastOp.arg.center) => lastOp.xf
       /\ lastOp.xf =>
            \A r \in RadiusSqInputs :
              r >= lastOp.arg.radius_sq =>
                contains_sphere(lastOp.self, [center |-> lastOp.arg.center, radius_sq |-> r])

\* contains_sphere accepted a sphere whose centre is outside a frustum that
\* has points inside, and rejects a smaller sphere about the same centre.
C20_Witness ==
  /\ lastOp.op = "contains_sphere"
  /\ lastOp.xf
  /\ ~contains_point(lastOp.self, lastOp.arg.center)
  /\ \E q \in PointInputs : contains_point(lastOp.self, q)
  /\ \E r \in RadiusSqInputs :
       /\ r < lastOp.arg.radius_sq
       /\ ~contains_sphere(lastOp.self, [center |-> lastOp.arg.center, radius_sq |-> r])


\* Point p lies inside box.
Inside(box, p) == LessEq3(box.min, p) /\ LessEq3(p, box.max)

C22_LodSelection ==
  [][LET levels == lastOp.self
         after == lastOp'.self
     IN /\ lastOp'.op = "get_mesh" =>
             LET d == lastOp'.arg
                 hit == {i \in 1..Len(levels) : levels[i].max_distance_sq >= d}
             IN /\ after = levels
                /\ levels = <<>> => lastOp'.xf = Null
                /\ levels # <<>> /\ hit # {} =>
                     \E i \in hit : (\A j \in hit : i <= j) /\ lastOp'.xf = levels[i].mesh
                /\ levels # <<>> /\ hit = {} => lastOp'.xf = levels[Len(levels)].mesh
        /\ lastOp'.op = "add_level" =>
             IF lastOp'.arg[1] = Null THEN after = levels
             ELSE /\ Len(after) = Len(levels) + 1
                  /\ SubSeq(after, 1, Len(levels)) = levels
                  /\ after[Len(after)].mesh = lastOp'.arg[1]
                  /\ after[Len(after)].max_distance_sq = lastOp'.arg[2] * lastOp'.arg[2]
        /\ lastOp'.op = "clear" => after = <<>>]_vars

\* get_mesh at the boundary of the second of three levels that were not
\* added by increasing distance.
C22_Witness ==
  /\ lastOp.op = "get_mesh"
  /\ Len(lastOp.self) = 3
  /\ lastOp.self[1].max_distance_sq < lastOp.arg
  /\ lastOp.self[2].max_distance_sq = lastOp.arg
  /\ lastOp.self[3].max_distance_sq < lastOp.arg
  /\ lastOp.xf = lastOp.self[2].mesh
  /\ lastOp.self[2].mesh # lastOp.self[3].mesh


\* Whether the events hold one of the key with the action.
Delivered(events, key, action) ==
  \E i \in 1..Len(events) : events[i] = [key |-> key, action |-> action]

\* C23: in Engine::run, a press event delivered by the window system makes
\* is_key_just_pressed(key) true during the update callback of exactly one
\* frame, the first one after the delivery, and false in the frames after it;
\* likewise is_key_just_released for a release event; and is_key_pressed(key)
\* is true in every update callback between the press and the release.
C23_KeyEdges ==
  \A k \in Keys :
    /\ engine.seen.just_pressed[k] = Delivered(engine.polled_before, k, "GLFW_PRESS")
    /\ engine.seen.just_released[k] = Delivered(engine.polled_before, k, "GLFW_RELEASE")
    /\ engine.seen.pressed[k] = engine.held_before[k]

\* The part of C23 about is_key_pressed alone: an update callback reads a key
\* as pressed exactly when the last event delivered for it was a press.
KeyHeldSeen == \A k \in Keys : engine.seen.pressed[k] = engine.held_before[k]

\* What Engine::run does instead of C23: update_input_state clears the flags
\* glfwPollEvents set before any update callback runs, so no update callback
\* ever reads is_key_just_pressed or is_key_just_released as true.
KeyEdgeNeverSeen ==
  \A k \in Keys : ~engine.seen.just_pressed[k] /\ ~engine.seen.just_released[k]

\* An update callback has run after a press of key 1 was delivered and the
\* key is still held.
KeyEdgeCase ==
  /\ lastOp.op = "run"
  /\ Delivered(engine.polled_before, 1, "GLFW_PRESS")
  /\ engine.held_before[1]
  /\ engine.seen.pressed[1]


\* Whether node n carries a mesh whose bounding sphere, moved by the
\* transform accumulated from the scene root down to n, passes the frustum
\* test of the camera.
PassesFrustum(n) ==
  /\ mesh[n] # Null
  /\ contains_sphere(Frustum_update(get_view_projection_matrix(cam)),
                     BoundingSphere_transform(
                       [center |-> MeshTable[mesh[n]].center,
                        radius_sq |-> MeshTable[mesh[n]].radius_sq],
                       PathTransform(n)))

\* The nodes reachable from the scene root that pass, in pre-order.
PassingNodes == SelectSeq(PreOrder(<<SceneRoot>>), PassesFrustum)

\* C24: after the culled queue build of render() the queue holds exactly one
\* item for each node reachable from the scene root that carries a mesh and
\* whose bounding sphere, moved by the accumulated transform, passes
\* contains_sphere, in pre-order with siblings in insertion order; every item
\* has layer Opaque and is not transparent; a node without a mesh or failing
\* the test gives no item, and its descendants are still tested.
C24_CulledQueue ==
  AfterFrame(lastOp) =>
    /\ Len(BuiltQueue) = Len(PassingNodes)
    /\ \A i \in 1..Len(BuiltQueue) :
         /\ BuiltQueue[i].mesh = mesh[PassingNodes[i]]
         /\ BuiltQueue[i].transform = PathTransform(PassingNodes[i])
         /\ BuiltQueue[i].layer = LayerOpaque
         /\ ~BuiltQueue[i].is_transparent
    /\ IsPermutation(BuiltQueue, renderer.render_queue)
    /\ renderer.draw_calls = Len(PassingNodes)

\* A frame of a chain root, a, b: a carries a mesh and is culled, its child b
\* carries a mesh and is queued.
C24_Witness ==
  /\ AfterFrame(lastOp)
  /\ \E a, b \in Nodes :
       /\ parent[a] = SceneRoot /\ parent[b] = a
       /\ mesh[a] # Null /\ ~PassesFrustum(a)
       /\ PassesFrustum(b)
       /\ Len(renderer.render_queue) = 1
       /\ renderer.render_queue[1].mesh = mesh[b]
       /\ renderer.render_queue[1].transform = PathTransform(b)


\* The mesh and transform of each item of queue q.
QueuedTransforms(q) == {<<q[i].mesh, q[i].transform>> : i \in 1..Len(q)}

\* The reachable nodes that pass the frustum test.
PassingSet == {PassingNodes[i] : i \in 1..Len(PassingNodes)}

\* C25: the transform stored in a node's render-queue item is the product of
\* the local transforms along the path from the scene root to the node, taken
\* from the nodes' current local transforms whether or not Scene::update()
\* has run since the last mutation; when Scene::update() has run after the
\* last mutation, it equals the node's get_world_transform().
C25_QueueTransform ==
  [][AfterFrame(lastOp') =>
       /\ QueuedTransforms(renderer'.render_queue)
            = {<<mesh[n], PathTransform(n)>> : n \in PassingSet}
       /\ lastOp.op = "scene_update" =>
            QueuedTransforms(renderer'.render_queue) = {<<mesh[n], world[n]>> : n \in PassingSet}]_vars

\* A frame rendered after set_position and before any Scene::update: the
\* queued node's item holds its place, its world transform is still the
\* identity.
C25_Witness ==
  /\ AfterFrame(lastOp)
  /\ \E n \in PassingSet :
       /\ PathTransform(n) # Identity4
       /\ world[n] = Identity4
       /\ QueuedTransforms(renderer.render_queue) = {<<mesh[n], PathTransform(n)>>}

\* A frame rendered after Scene::update: the queued node's item holds its
\* world transform, which is not the identity.
QueuedAfterUpdate ==
  /\ AfterFrame(lastOp)
  /\ \E n \in PassingSet :
       /\ world[n] # Identity4
       /\ world[n] = PathTransform(n)
       /\ QueuedTransforms(renderer.render_queue) = {<<mesh[n], world[n]>>}


\* The nodes reachable from the scene root that carry a light.
LightNodesOf(types) ==
  {n \in Nodes : RootOf(n) = SceneRoot /\ light[n] # Null /\ LightTable[light[n]] \in types}

\* C26: during light collection every point or spot light attached to a scene
\* node has its position set to the node's world position, the translation of
\* the node's world transform with all ancestor transforms in it, before it
\* joins the per-frame lists; a directional light attached to a node is
\* collected with its position unchanged.  (Stated for frames in which the
\* stored world transforms are current.)
C26_LightWorldPosition ==
  [][AfterFrame(lastOp') /\ (\A n \in Nodes : world[n] = PathTransform(n)) =>
       /\ \A n \in LightNodesOf({"Point", "Spot"}) :
            lightPos'[light[n]] = Origin4(world[n])
       /\ \A n \in LightNodesOf({"Directional"}) :
            lightPos'[light[n]] = lightPos[light[n]]]_vars

\* What collect_node_lights does instead: the point or spot light gets the
\* node's own position, relative to its parent; directional lights keep theirs.
LightLocalPosition ==
  [][AfterFrame(lastOp') =>
       /\ \A n \in LightNodesOf({"Point", "Spot"}) : lightPos'[light[n]] = position[n]
       /\ \A n \in LightNodesOf({"Directional"}) :
            lightPos'[light[n]] = lightPos[light[n]]]_vars

\* A frame rendered after Scene::update with a point light on a node whose
\* parent is away from the origin.
LightUnderMovedParent ==
  /\ AfterFrame(lastOp)
  /\ \A n \in Nodes : world[n] = PathTransform(n)
  /\ \E n \in LightNodesOf({"Point"}) :
       /\ parent[n] # SceneRoot
       /\ Origin4(world[n]) # position[n]
       /\ lightPos[light[n]] = position[n]


\* The blur passes of a trace in the order they ran.
BlurSeq(trace) == SelectSeq(trace, LAMBDA e : e.ev = "blur_pass")

\* C27: with bloom enabled the blur stage runs 10 passes that alternate
\* horizontal and vertical starting with horizontal; the first pass reads the
\* bright-pass buffer and every later pass reads the blur buffer the pass
\* before it wrote; no pass reads the buffer it writes; and the composite
\* samples the blur buffer the last pass wrote.
C27_BlurPingPong ==
  AfterFrame(lastOp) /\ renderer.bloom_enabled =>
    LET blurs == BlurSeq(gl_trace)
        bright == SelectSeq(gl_trace, LAMBDA e : e.ev = "bright_pass")
        composite == gl_trace[Len(gl_trace)]
    IN /\ Len(blurs) = 10
       /\ \A k \in 1..Len(blurs) :
            /\ blurs[k].z = (IF k % 2 = 1 THEN 1 ELSE 0)
            /\ blurs[k].y = (IF k = 1 THEN bright[1].x ELSE blurs[k - 1].x)
            /\ blurs[k].y # blurs[k].x
            /\ blurs[k].x \in {FbBlur0, FbBlur1}
       /\ composite.ev = "composite"
       /\ composite.z = blurs[Len(blurs)].x

\* A frame with bloom enabled: the bright pass, the blur passes with the last
\* one vertical, and the composite.
C27_Witness ==
  /\ AfterFrame(lastOp)
  /\ renderer.bloom_enabled
  /\ BlurSeq(gl_trace) # <<>>
  /\ BlurSeq(gl_trace)[1].y = FbBright
  /\ BlurSeq(gl_trace)[Len(BlurSeq(gl_trace))].z = 0
  /\ gl_trace[Len(gl_trace)].ev = "composite"
  /\ gl_trace[Len(gl_trace)].z = FbBlur0


\* The nodes reached from the nodes of S by following parent links.
RECURSIVE AncestorSet(_)
AncestorSet(S) ==
  LET T == S \cup ({parent[m] : m \in S} \ {Null})
  IN IF T = S THEN S ELSE AncestorSet(T)

Ancestors(n) == AncestorSet({parent[n]} \ {Null})

\* C28: after any sequence of add_child, remove_child and detach_from_parent
\* calls, add_child of the node itself or of one of its ancestors included,
\* the parent relation is acyclic: no node is its own ancestor, so that
\* update_transform and the other recursive traversals visit each reachable
\* node once and terminate.
C28_Acyclic ==
  /\ \A n \in Nodes : n \notin Ancestors(n) /\ n \notin Descendants(children, n)
  /\ \A n \in Nodes : Terminates(children, n)
  /\ ~crashed

\* add_child has made a node an ancestor of itself and the update_transform
\* it ends with has not returned.
CycleCase ==
  /\ lastOp.op = "add_child"
  /\ lastOp.arg # Null
  /\ lastOp.arg \in Ancestors(lastOp.arg)
  /\ crashed

\* While no add_child is handed the receiver or one of its ancestors, the
\* relation stays acyclic.
AcyclicWithoutSelfInsert ==
  [][(lastOp'.op = "add_child" => lastOp'.arg \notin {lastOp'.self} \cup Ancestors(lastOp'.self))
     /\ (\A n \in Nodes : n \notin Ancestors(n))
     => \A n \in Nodes : n \notin AncestorSet({parent'[n]} \ {Null})]_vars


\* The material bound last to the shader of draw d before the draw, within
\* the frame; Null when none was.
BoundTo(trace, d) ==
  LET binds == {k \in 1..(d - 1) :
                  trace[k].ev = "bind_material" /\ trace[k].y = ShaderAddr(trace[d].x)}
  IN IF binds = {} THEN Null
     ELSE trace[CHOOSE k \in binds : \A j \in binds : j <= k].x

\* C29: for every mesh draw of a frame, the material the draw uses (the
\* mesh's material or the default material) has been bound by Material::bind
\* to the shader the draw uses, earlier in the frame and with no other
\* material bound to that shader since; also when consecutive draws use the
\* same material with different shaders.
C29_MaterialBoundToShader ==
  AfterFrame(lastOp) =>
    \A d \in DrawEvents(gl_trace) : BoundTo(gl_trace, d) = MaterialOf(gl_trace[d].x)

\* The same for the draws that are the first of the frame or follow a draw of
\* another material or of the same shader.
BoundUnlessShaderSwitch ==
  AfterFrame(lastOp) =>
    \A d \in DrawEvents(gl_trace) :
      \/ BoundTo(gl_trace, d) = MaterialOf(gl_trace[d].x)
      \/ /\ ~MaterialChanges(gl_trace, d)
         /\ ShaderAddr(gl_trace[PrevDraw(gl_trace, d)].x) # ShaderAddr(gl_trace[d].x)

\* Two draws in a row of one material and two shaders: no material has been
\* bound to the shader of the second.
ShaderSwitchCase ==
  /\ AfterFrame(lastOp)
  /\ \E d \in DrawEvents(gl_trace) :
       /\ PrevDraw(gl_trace, d) # 0
       /\ ~MaterialChanges(gl_trace, d)
       /\ ShaderAddr(gl_trace[PrevDraw(gl_trace, d)].x) # ShaderAddr(gl_trace[d].x)
       /\ BoundTo(gl_trace, d) = Null


\* The call just made ran a shadow depth pass.
AfterShadowPass ==
  \/ /\ lastOp.op = "setup_shadows"
     /\ lastOp.self # Null /\ lastOp.arg # Null
     /\ scene.shadows_enabled /\ FirstDirectional(scene.lights) # Null
  \/ lastOp.op = "render_point_shadow" /\ lastOp.self # Null /\ lastOp.arg # Null

\* C30: the front-face culling of a shadow depth pass is confined to the
\* pass: after render_directional_shadow or render_point_shadow has returned,
\* and so after setup_shadows, the GL cull-face mode is back-face again, and
\* with the renderer's culling enabled every draw of a frame runs with
\* back-face culling.
C30_CullFaceRestored ==
  /\ AfterShadowPass => gl.cull_mode = "BACK"
  /\ AfterFrame(lastOp) /\ renderer.culling_enabled /\ DrawEvents(gl_trace) # {} =>
       gl.cull_face /\ gl.cull_mode = "BACK"

\* The same for the point-light pass alone, which ends with glCullFace(GL_BACK).
PointPassRestores ==
  lastOp.op = "render_point_shadow" /\ lastOp.self # Null /\ lastOp.arg # Null =>
    gl.cull_mode = "BACK"

\* A frame drawn with culling enabled after setup_shadows ran the directional
\* pass: the cull-face mode is front-face.
FrontCulledFrame ==
  /\ AfterFrame(lastOp)
  /\ renderer.culling_enabled /\ gl.cull_face
  /\ DrawEvents(gl_trace) # {}
  /\ gl.cull_mode = "FRONT"

=============================================================================
